---- MODULE Spec2Model ----
(***************************************************************************)
(* Execution control plane of stormstack-dev-bot: the command validator    *)
(* (internal/executor/sandbox.go), the command runner                      *)
(* (internal/executor/runner.go), the tool dispatcher                      *)
(* (internal/slack/handlers.go), the git push operation                    *)
(* (internal/git/operations.go) and the tool-use control loop              *)
(* (internal/claude/conversation.go).                                      *)
(*                                                                         *)
(* A Go string is modelled as a sequence of one-character strings, so that *)
(* strings.Contains, strings.Fields, strings.Split, strings.ToLower and    *)
(* strings.TrimSpace are computed character by character as the library    *)
(* computes them.                                                          *)
(***************************************************************************)
EXTENDS Integers, Sequences, FiniteSets, TLC

VARIABLES
    pc,             \* position of the turn in ProcessMessage / processWithToolLoop
    iter,           \* loop counter i of processWithToolLoop
    modelCalls,     \* calls of CreateMessageWithTools made in this turn
    toolExecs,      \* calls of the executor made in this turn
    toolTurns,      \* responses of this turn whose stop reason was tool_use
    toolUses,       \* tool uses extracted from the current response (local toolUses)
    pending,        \* tool uses of the current response not yet executed
    results,        \* ToolResults collected for the current response
    messages,       \* in-memory history handed to the model (kinds of turns)
    outcome,        \* what ProcessMessage returned: text or error
    store,          \* what the ConversationStore holds for the conversation id
    logged,         \* warnings ProcessMessage has logged in this turn
    call,           \* the tool invocation the dispatcher is handling
    ran,            \* command lines handed to `sh -c` by executeCommand
    gitRan,         \* argument vectors handed to `git` by Operations.runGit
    currentBranch,  \* branch checked out in the repository
    events,         \* socketClient.Events: inbound events handleEvents has not taken yet
    handling,       \* the event the handleEvents goroutine is inside handleEvent for
    active,         \* per conversation id, the calls of ProcessMessage in progress
    mu,             \* MemoryStore.mu: the caller holding the write lock, the read lockers
    conversations,  \* MemoryStore.conversations: id -> pointer to a Conversation (0: no entry)
    convs,          \* the Conversation structs allocated so far, by pointer
    arrays,         \* the backing arrays of the Messages slices allocated so far
    callers,        \* the goroutines calling the store: their call in progress and locals
    serial,         \* the store calls in the order mu was granted to them
    proc,           \* the `sh -c` subprocess of one executeCommand call
    deadline,       \* the context of that call: whether its deadline has expired
    streams,        \* per output stream: its limitedWriter, buffer and copying goroutine
    cmdResult,      \* what executeCommand returned
    fileOp,         \* the invocation of a file tool under way: its argument, the locations touched
    ctx             \* the context main hands down to every turn: live, or cancelled

vars == <<pc, iter, modelCalls, toolExecs, toolTurns, toolUses, pending, results,
          messages, outcome, store, logged, call, ran, gitRan, currentBranch,
          events, handling, active, mu, conversations, convs, arrays, callers, serial,
          proc, deadline, streams, cmdResult, fileOp, ctx>>

loopVars == <<pc, iter, modelCalls, toolExecs, toolTurns, toolUses, pending, results,
              messages, outcome, store, logged>>

\* The conversation manager, the dispatcher and the repository.
agentVars == <<loopVars, call, ran, gitRan, currentBranch>>

\* The Slack bot's event loop.
botVars == <<events, handling, active>>

\* The MemoryStore and the goroutines calling it.
memVars == <<mu, conversations, convs, arrays, callers, serial>>

\* One call of Runner.executeCommand, its subprocess and its output capture.
runVars == <<proc, deadline, streams, cmdResult>>

\* One invocation of a file tool on the Reader, the Writer or the Searcher.
fileVars == <<fileOp>>

\* The context of main, cancelled on SIGINT or SIGTERM.
ctxVars == <<ctx>>

\* What the actions of the conversation manager and the dispatcher leave alone.
outsideVars == <<botVars, memVars, runVars, fileVars, ctxVars>>
\* What the actions of the bot leave alone.
notBotVars == <<agentVars, memVars, runVars, fileVars, ctxVars>>
\* What the actions of the MemoryStore and its callers leave alone.
notMemVars == <<agentVars, botVars, runVars, fileVars, ctxVars>>
\* What the actions of one executeCommand call leave alone.
notRunVars == <<agentVars, botVars, memVars, fileVars, ctxVars>>
\* What the actions of the file tools leave alone.
notFileVars == <<agentVars, botVars, memVars, runVars, ctxVars>>
\* What the cancellation of the context leaves alone.
notCtxVars == <<agentVars, botVars, memVars, runVars, fileVars>>

(***************************************************************************)
(* Bounds of the model.                                                    *)
(***************************************************************************)
\* Longest command, in vocabulary tokens, a run_command invocation carries.
MaxTokens == 4
\* Longest argument string, in vocabulary tokens, of run_build / run_tests.
MaxArgTokens == 1
\* Most words of a command line of the validator specification.
MaxWords == 3
\* Most writes the subprocess makes to one output stream.
MaxWrites == 5
\* Goroutines calling the MemoryStore at the same time.
NumCallers == 2
\* Most store calls one goroutine makes.
MaxCalls == 2
\* Most events waiting in socketClient.Events.
MaxEvents == 3
\* Most tool-use blocks in one model response.
MaxToolUses == 2
\* Longest stored conversation a new turn is started on.
MaxHistory == 1

(***************************************************************************)
(* Go strings library, on sequences of characters.                         *)
(***************************************************************************)
UpperCase == <<"A","B","C","D","E","F","G","H","I","J","K","L","M","N","O","P","Q","R","S","T","U","V","W","X","Y","Z">>
LowerCase == <<"a","b","c","d","e","f","g","h","i","j","k","l","m","n","o","p","q","r","s","t","u","v","w","x","y","z">>

\* The lower-case letter of each upper-case (ASCII) letter.
UpperToLower ==
    [c \in {UpperCase[i] : i \in 1..26} |-> LowerCase[CHOOSE i \in 1..26 : UpperCase[i] = c]]

\* unicode.ToLower on one (ASCII) character.
ToLowerChar(c) == IF c \in DOMAIN UpperToLower THEN UpperToLower[c] ELSE c

\* strings.ToLower
ToLower(s) == [i \in 1..Len(s) |-> ToLowerChar(s[i])]

\* unicode.IsSpace, on the characters of the model's alphabet.
IsSpace(c) == c \in {" ", "\t", "\n", "\r"}

\* strings.Contains: literal substring containment.
Contains(s, sub) ==
    \E i \in 0..(Len(s) - Len(sub)) : \A j \in 1..Len(sub) : s[i + j] = sub[j]

\* strings.TrimSpace
TrimSpace(s) ==
    LET keep == {i \in 1..Len(s) : ~IsSpace(s[i])}
    IN  IF keep = {} THEN <<>>
        ELSE LET lo == CHOOSE i \in keep : \A k \in keep : i <= k
                 hi == CHOOSE i \in keep : \A k \in keep : k <= i
             IN  SubSeq(s, lo, hi)

\* strings.Fields: the maximal runs of non-space characters, in order.
RECURSIVE Fields(_)
Fields(s) ==
    LET keep == {i \in 1..Len(s) : ~IsSpace(s[i])}
    IN  IF keep = {} THEN <<>>
        ELSE LET lo == CHOOSE i \in keep : \A k \in keep : i <= k
                 stops == {i \in lo..Len(s) : IsSpace(s[i])}
                 hi == IF stops = {} THEN Len(s)
                       ELSE (CHOOSE i \in stops : \A k \in stops : i <= k) - 1
             IN  <<SubSeq(s, lo, hi)>> \o Fields(SubSeq(s, hi + 1, Len(s)))

\* strings.Split(s, sep) for a one-character separator: always at least one piece.
RECURSIVE Split(_, _)
Split(s, sep) ==
    LET at == {i \in 1..Len(s) : s[i] = sep}
    IN  IF at = {} THEN <<s>>
        ELSE LET p == CHOOSE i \in at : \A k \in at : i <= k
             IN  <<SubSeq(s, 1, p - 1)>> \o Split(SubSeq(s, p + 1, Len(s)), sep)

\* strings.ReplaceAll(s, old, new): non-overlapping matches, left to right.
RECURSIVE ReplaceAll(_, _, _)
ReplaceAll(s, old, new) ==
    LET at == {i \in 0..(Len(s) - Len(old)) : \A j \in 1..Len(old) : s[i + j] = old[j]}
    IN  IF at = {} THEN s
        ELSE LET p == CHOOSE i \in at : \A k \in at : i <= k
             IN  SubSeq(s, 1, p) \o new
                 \o ReplaceAll(SubSeq(s, p + Len(old) + 1, Len(s)), old, new)

\* Index of the first element of a non-empty set of integers.
Least(S) == CHOOSE i \in S : \A k \in S : i <= k

(***************************************************************************)
(* sandbox.go: the policy tables.                                          *)
(***************************************************************************)
AllowedCommands == <<
    <<"g","i","t">>,
    <<"g","h">>,
    <<"l","s">>, <<"c","a","t">>, <<"h","e","a","d">>, <<"t","a","i","l">>, <<"f","i","n","d">>, <<"g","r","e","p">>, <<"w","c">>, <<"d","i","f","f">>,
    <<"e","c","h","o">>, <<"p","w","d">>, <<"d","a","t","e">>, <<"w","h","i","c","h">>, <<"f","i","l","e">>, <<"s","t","a","t">>,
    <<"m","a","k","e">>, <<"m","v","n">>, <<"g","r","a","d","l","e">>, <<"n","p","m">>, <<"y","a","r","n">>, <<"p","n","p","m">>, <<"c","a","r","g","o">>, <<"g","o">> >>

DangerousPatterns == <<
    <<"r","m"," ","-","r","f"," ","/">>,
    <<"r","m"," ","-","r","f"," ","~">>,
    <<"r","m"," ","-","r","f"," ","$","H","O","M","E">>,
    <<">"," ","/","d","e","v","/">>,
    <<"m","k","f","s">>,
    <<"d","d"," ","i","f","=">>,
    <<":","(",")","{",":","|",":","&","}",";",":">>,
    <<"c","u","r","l",".","*","|",".","*","s","h">>,
    <<"w","g","e","t",".","*","|",".","*","s","h">>,
    <<"s","u","d","o">>,
    <<"s","u"," ","-">>,
    <<"c","h","m","o","d"," ","7","7","7">>,
    <<"c","h","o","w","n"," ","r","o","o","t">>,
    <<"/","e","t","c","/","p","a","s","s","w","d">>,
    <<"/","e","t","c","/","s","h","a","d","o","w">>,
    <<"~","/",".","s","s","h">>,
    <<".","s","s","h","/">>,
    <<"p","r","i","n","t","e","n","v">>,
    <<"e","x","p","o","r","t",".","*","=">> >>

BlockedGitCommands == <<
    <<"p","u","s","h"," ","-","-","f","o","r","c","e">>,
    <<"p","u","s","h"," ","-","f">>,
    <<"r","e","s","e","t"," ","-","-","h","a","r","d">>,
    <<"c","l","e","a","n"," ","-","f">>,
    <<"c","l","e","a","n"," ","-","f","d">>,
    <<"c","h","e","c","k","o","u","t"," ",".">>,
    <<"r","e","s","t","o","r","e"," ",".">> >>

\* strings.ToLower(pattern) of every deny-list entry (sandbox.go line 73).
DangerousLower == [k \in 1..Len(DangerousPatterns) |-> ToLower(DangerousPatterns[k])]

\* strings.ToLower(blocked) of every blocked git phrase (sandbox.go line 173).
BlockedGitLower == [k \in 1..Len(BlockedGitCommands) |-> ToLower(BlockedGitCommands[k])]

(***************************************************************************)
(* Errors: nil, or fmt.Errorf(kind + arg).                                 *)
(***************************************************************************)
NoErr == [kind |-> "nil", arg |-> <<>>]
Err(kind, arg) == [kind |-> kind, arg |-> arg]

(***************************************************************************)
(* sandbox.go: the validator.                                              *)
(***************************************************************************)
\* isAllowedCommand comparing without regard to case.
isAllowedCommandIgnoringCase(cmd) ==
    LET parts == Split(cmd, "/")
        base == IF Contains(cmd, <<"/">>) THEN parts[Len(parts)] ELSE cmd
    IN  \E k \in 1..Len(AllowedCommands) : ToLower(base) = ToLower(AllowedCommands[k])

\* isAllowedCommand: the last path segment of cmd is an allowlist entry.
isAllowedCommand(cmd) ==
    LET parts == Split(cmd, "/")
        base == IF Contains(cmd, <<"/">>) THEN parts[Len(parts)] ELSE cmd
    IN  \E k \in 1..Len(AllowedCommands) : base = AllowedCommands[k]

\* validateGitCommand
validateGitCommand(command) ==
    LET lowerCmd == ToLower(command)
        hit == {k \in 1..Len(BlockedGitCommands) : Contains(lowerCmd, BlockedGitLower[k])}
    IN  IF hit # {}
        THEN Err("git operation not allowed", BlockedGitCommands[Least(hit)])
        ELSE IF /\ Contains(lowerCmd, <<"p","u","s","h">>)
                /\ Contains(lowerCmd, <<"m","a","i","n">>) \/ Contains(lowerCmd, <<"m","a","s","t","e","r">>)
                /\ ~Contains(lowerCmd, <<"-","u">>)
                /\ ~Contains(lowerCmd, <<"-","-","s","e","t","-","u","p","s","t","r","e","a","m">>)
             THEN Err("direct push to main/master not allowed", <<>>)
             ELSE NoErr

\* validatePipeChain: only the leading token of each non-empty piece is looked at.
validatePipeChain(command) ==
    LET pipes == Split(command, "|")
        bad == {k \in 1..Len(pipes) :
                    /\ TrimSpace(pipes[k]) # <<>>
                    /\ ~isAllowedCommand(Fields(TrimSpace(pipes[k]))[1])}
    IN  IF bad = {} THEN NoErr
        ELSE Err("command not allowed in pipe", Fields(TrimSpace(pipes[Least(bad)]))[1])

\* A deny-list scan that is skipped for commands whose leading token is allowlisted
\* (the allowlist consulted first).
dangerousPatternAfterAllowlist(command) ==
    LET lowerCmd == ToLower(command)
        hit == {k \in 1..Len(DangerousPatterns) : Contains(lowerCmd, DangerousLower[k])}
    IN  IF hit = {} \/ isAllowedCommand(Fields(command)[1]) THEN NoErr
        ELSE Err("command contains dangerous pattern", DangerousPatterns[Least(hit)])

\* A deny-list scan that evaluates the entry "curl.*|.*sh" as a regular expression
\* (it then matches every text that holds "curl" or "sh") and the others literally.
dangerousPatternAsRegexp(command) ==
    LET lowerCmd == ToLower(command)
        regexp == <<"c","u","r","l",".","*","|",".","*","s","h">>
        hit == {k \in 1..Len(DangerousPatterns) :
                   \/ Contains(lowerCmd, DangerousLower[k])
                   \/ /\ DangerousPatterns[k] = regexp
                      /\ Contains(lowerCmd, <<"c","u","r","l">>) \/ Contains(lowerCmd, <<"s","h">>)}
    IN  IF hit = {} THEN NoErr
        ELSE Err("command contains dangerous pattern", DangerousPatterns[Least(hit)])

\* The deny-list scan of ValidateCommand (sandbox.go lines 70-76): the error of the
\* first entry, in list order, whose lower-cased text the lower-cased command contains.
dangerousPattern(command) ==
    LET lowerCmd == ToLower(command)
        hit == {k \in 1..Len(DangerousPatterns) : Contains(lowerCmd, DangerousLower[k])}
    IN  IF hit = {} THEN NoErr
        ELSE Err("command contains dangerous pattern", DangerousPatterns[Least(hit)])

RECURSIVE ValidateCommand(_)

\* validateChainedCommands: every non-empty piece goes through ValidateCommand again;
\* the first error is returned.
validateChainedCommands(command) ==
    LET replaced == ReplaceAll(ReplaceAll(command, <<"&","&">>, <<"\n">>), <<";">>, <<"\n">>)
        cmds == Split(replaced, "\n")
        errs == [k \in 1..Len(cmds) |->
                    IF TrimSpace(cmds[k]) = <<>> THEN NoErr
                    ELSE ValidateCommand(TrimSpace(cmds[k]))]
        bad == {k \in 1..Len(cmds) : errs[k] # NoErr}
    IN  IF bad = {} THEN NoErr ELSE errs[Least(bad)]

\* ValidateCommand letting a blank command through.
ValidateCommandBlankAllowed(raw) ==
    LET command == TrimSpace(raw)
        parts == Fields(command)
        baseCmd == parts[1]
        danger == dangerousPattern(command)
    IN  IF command = <<>> THEN NoErr
        ELSE IF danger # NoErr THEN danger
        ELSE IF Contains(command, <<"|">>) THEN validatePipeChain(command)
        ELSE IF Contains(command, <<"&","&">>) \/ Contains(command, <<";">>)
             THEN validateChainedCommands(command)
        ELSE IF ~isAllowedCommand(baseCmd) THEN Err("command not allowed", baseCmd)
        ELSE IF baseCmd = <<"g","i","t">> THEN validateGitCommand(command)
        ELSE NoErr

\* ValidateCommand: nil (allowed) or the rejection.
ValidateCommand(raw) ==
    LET command == TrimSpace(raw)
        parts == Fields(command)
        baseCmd == parts[1]
        danger == dangerousPattern(command)
    IN  IF command = <<>> THEN Err("empty command", <<>>)
        ELSE IF danger # NoErr THEN danger
        ELSE IF Len(parts) = 0 THEN Err("empty command", <<>>)
        ELSE IF Contains(command, <<"|">>) THEN validatePipeChain(command)
        ELSE IF Contains(command, <<"&","&">>) \/ Contains(command, <<";">>)
             THEN validateChainedCommands(command)
        ELSE IF ~isAllowedCommand(baseCmd) THEN Err("command not allowed", baseCmd)
        ELSE IF baseCmd = <<"g","i","t">> THEN validateGitCommand(command)
        ELSE NoErr

(***************************************************************************)
(* sandbox.go: SanitizeBranchName.                                         *)
(***************************************************************************)
\* The (old, new) pairs of the strings.NewReplacer of SanitizeBranchName, in order.
BranchReplacements == <<
    <<" ">>, <<".",".">>, <<"~">>, <<"^">>, <<":">>, <<"?">>, <<"*">>, <<"[">>, <<"]">>, <<"\\">>, <<"@","{">> >>

\* Whether old string k of the replacer matches s at offset i (0-based).
MatchesAt(s, i, old) ==
    /\ i + Len(old) <= Len(s)
    /\ \A j \in 1..Len(old) : s[i + j] = old[j]

\* replacer.Replace: scanning left to right, at the first position where an old
\* string matches, the first pair (in argument order) matching there is replaced by
\* "-" and the scan goes on behind the match; the characters before it are copied.
RECURSIVE ReplaceUnsafe(_)
ReplaceUnsafe(s) ==
    LET starts == {i \in 0..(Len(s) - 1) :
                      \E k \in 1..Len(BranchReplacements) : MatchesAt(s, i, BranchReplacements[k])}
    IN  IF starts = {} THEN s
        ELSE LET p == Least(starts)
                 hit == {k \in 1..Len(BranchReplacements) : MatchesAt(s, p, BranchReplacements[k])}
             IN  SubSeq(s, 1, p) \o <<"-">> \o ReplaceUnsafe(
                     SubSeq(s, p + Len(BranchReplacements[Least(hit)]) + 1, Len(s)))

\* strings.Trim(s, cutset): leading and trailing characters of the cutset removed.
Trim(s, cutset) ==
    LET keep == {i \in 1..Len(s) : s[i] \notin cutset}
    IN  IF keep = {} THEN <<>>
        ELSE SubSeq(s, Least(keep), CHOOSE i \in keep : \A k \in keep : k <= i)

\* Longest branch name SanitizeBranchName returns, in bytes.
MaxBranchLen == 100

\* SanitizeBranchName without the length cap.
SanitizeBranchNameUncapped(name) == Trim(ReplaceUnsafe(name), {"-", "/"})

SanitizeBranchName(name) ==
    LET trimmed == Trim(ReplaceUnsafe(name), {"-", "/"})
    IN  IF Len(trimmed) > MaxBranchLen THEN SubSeq(trimmed, 1, MaxBranchLen) ELSE trimmed

(***************************************************************************)
(* Configuration (config.Load defaults) handed to NewRunner.               *)
(***************************************************************************)
buildCmd == <<".","/","b","u","i","l","d",".","s","h"," ","b","u","i","l","d">>
testCmd == <<".","/","b","u","i","l","d",".","s","h"," ","t","e","s","t">>

(***************************************************************************)
(* runner.go: the entry points of the Runner.  Each yields either an error *)
(* raised before any subprocess exists, or the command line handed to      *)
(* executeCommand (`sh -c <line>`).                                        *)
(***************************************************************************)
Started(line) == [err |-> NoErr, line |-> line, started |-> TRUE]
Refused(err) == [err |-> err, line |-> <<>>, started |-> FALSE]

\* Runner.RunCommand: validate, then execute.
RunCommand(command) ==
    LET err == ValidateCommand(command)
    IN  IF err # NoErr THEN Refused(err) ELSE Started(command)

\* Runner.RunBuild: the configured build command, with the arguments appended.
RunBuild(args) ==
    Started(IF args # <<>> THEN buildCmd \o <<" ">> \o args ELSE buildCmd)

\* Runner.RunTests: the configured test command, with the arguments appended.
RunTests(args) ==
    Started(IF args # <<>> THEN testCmd \o <<" ">> \o args ELSE testCmd)

\* How cmd.Run() of executeCommand can end: exit status 0, a non-zero exit status,
\* the deadline expiring, the subprocess failing to start, or exit status 0 after the
\* copy of an output stream stopped on a short write.
RunOutcomes == {"exit0", "exit1", "timeout", "startfail", "shortwrite"}

\* executeCommand's return for each way the subprocess can end.
executeCommandResult(line, how) ==
    IF how \in {"startfail", "shortwrite"} THEN Err("command failed", line)
    ELSE NoErr

(***************************************************************************)
(* operations.go: the git operations the dispatcher reaches.  Each yields  *)
(* the argument vectors handed to `git`, the error returned and the branch *)
(* checked out afterwards.  gitOk[k] says whether the k-th git subprocess  *)
(* of the operation succeeds.                                              *)
(***************************************************************************)
GitDone(argvs, err, branch) == [argvs |-> argvs, err |-> err, branch |-> branch]

RevParse == << <<"r","e","v","-","p","a","r","s","e">>, <<"-","-","a","b","b","r","e","v","-","r","e","f">>, <<"H","E","A","D">> >>

\* Operations.Push: `git push`, or `git push -u origin <current branch>`.
Push(setUpstream, branch, gitOk) ==
    IF setUpstream
    THEN IF ~gitOk[1]
         THEN GitDone(<<RevParse>>, Err("git failed", <<"r","e","v","-","p","a","r","s","e">>), branch)
         ELSE LET args == << <<"p","u","s","h">>, <<"-","u">>, <<"o","r","i","g","i","n">>, branch >>
              IN  GitDone(<<RevParse, args>>,
                          IF gitOk[2] THEN NoErr ELSE Err("git failed", <<"p","u","s","h">>), branch)
    ELSE GitDone(<< << <<"p","u","s","h">> >> >>,
                 IF gitOk[1] THEN NoErr ELSE Err("git failed", <<"p","u","s","h">>), branch)

\* Operations.CreateBranch: `git checkout -b <sanitized name> [from]`.
CreateBranch(name, from, branch, gitOk) ==
    LET clean == SanitizeBranchName(name)
        args == << <<"c","h","e","c","k","o","u","t">>, <<"-","b">>, clean >> \o (IF from # <<>> THEN <<from>> ELSE <<>>)
    IN  IF clean = <<>> THEN GitDone(<<>>, Err("invalid branch name", <<>>), branch)
        ELSE IF gitOk[1] THEN GitDone(<<args>>, NoErr, clean)
        ELSE GitDone(<<args>>, Err("git failed", <<"c","h","e","c","k","o","u","t">>), branch)

(***************************************************************************)
(* handlers.go: the tool dispatcher, ToolExecutor.Execute.                 *)
(***************************************************************************)
\* The tool names of the switch of Execute.
ToolNames == {
    "read_file", "list_files", "search_code", "get_tree",
    "write_file", "edit_file",
    "run_command", "run_build", "run_tests",
    "git_status", "git_diff", "git_log", "create_branch", "commit", "push", "create_pr",
    "get_guidelines", "find_tests", "analyze_failures" }

\* prompts.go, GetAllTools: the names of the tools offered to the model.
GetAllTools == {
    "read_file", "list_files", "search_code", "get_tree",
    "write_file", "edit_file",
    "run_command", "run_build", "run_tests",
    "git_status", "git_diff", "git_log", "create_branch", "commit", "push", "create_pr",
    "get_pr",
    "get_guidelines", "find_tests", "analyze_failures" }

\* The handlers that never decode their input (gitStatus, getGuidelines).
NoInputTools == {"git_status", "get_guidelines"}

\* The decoded arguments of a tool invocation.  json = "bad" is an input that
\* json.Unmarshal rejects; set_upstream = "absent" leaves the handler's default.
Input(json, command, args, name, set_upstream) ==
    [json |-> json, command |-> command, args |-> args, name |-> name,
     set_upstream |-> set_upstream]

NoInput == Input("ok", <<>>, <<>>, <<>>, "absent")

\* The dispatcher is idle, or handling one invocation:
\*   "dispatching"  Execute has been called and has not yet reached a collaborator,
\*   "running"      executeCommand is blocked in cmd.Run() on the subprocess `line`,
\*   "returned"     Execute has returned err (NoErr: a text result).
IdleCall == [phase |-> "idle", id |-> 0, name |-> "", input |-> NoInput,
             err |-> NoErr, line |-> <<>>]

Calling(id, name, input) ==
    [phase |-> "dispatching", id |-> id, name |-> name, input |-> input,
     err |-> NoErr, line |-> <<>>]

\* Execute returns err without a subprocess having been started by the Runner.
Return(err, argvs, branch) ==
    /\ call' = [call EXCEPT !.phase = "returned", !.err = err]
    /\ gitRan' = gitRan \o argvs
    /\ currentBranch' = branch
    /\ UNCHANGED ran

\* A Runner entry point has answered: refused, or a subprocess now runs.
Run(r) ==
    IF r.started
    THEN /\ call' = [call EXCEPT !.phase = "running", !.line = r.line]
         /\ ran' = Append(ran, r.line)
         /\ UNCHANGED <<gitRan, currentBranch>>
    ELSE Return(r.err, <<>>, currentBranch)

\* ToolExecutor.push: set_upstream defaults to true; after a successful push the
\* branch is read once more for the result text.
push(input, gitOk) ==
    LET r == Push(input.set_upstream # "false", currentBranch, gitOk)
    IN  Return(r.err, r.argvs \o (IF r.err = NoErr THEN <<RevParse>> ELSE <<>>), r.branch)

\* ToolExecutor.createBranch
createBranch(input, gitOk) ==
    LET r == CreateBranch(input.name, <<>>, currentBranch, gitOk)
    IN  Return(r.err, r.argvs, r.branch)

\* Execute with the error of json.Unmarshal dropped: the handler goes on with the
\* zero values of its parameters.
ExecuteIgnoringDecodeError ==
    /\ UNCHANGED outsideVars
    /\ call.phase = "dispatching"
    /\ UNCHANGED loopVars
    /\ IF call.name \notin ToolNames
       THEN Return(Err("unknown tool", <<>>), <<>>, currentBranch)
       ELSE IF call.name = "run_command" THEN Run(RunCommand(call.input.command))
       ELSE IF call.name = "run_build" THEN Run(RunBuild(call.input.args))
       ELSE IF call.name = "run_tests" THEN Run(RunTests(call.input.args))
       ELSE IF call.name = "push"
       THEN \E gitOk \in [1..2 -> BOOLEAN] : push(call.input, gitOk)
       ELSE IF call.name = "create_branch"
       THEN \E gitOk \in [1..1 -> BOOLEAN] : createBranch(call.input, gitOk)
       ELSE \E ok \in BOOLEAN :
                Return(IF ok THEN NoErr ELSE Err("collaborator error", <<>>),
                       <<>>, currentBranch)

\* ToolExecutor.Execute, up to the point where it returns or blocks on a subprocess.
\* The collaborators that are not modelled further (file I/O, search, status, diff,
\* log, commit, pull request, analysis) succeed or fail as the environment decides.
Execute ==
    /\ UNCHANGED outsideVars
    /\ call.phase = "dispatching"
    /\ UNCHANGED loopVars
    /\ IF call.name \notin ToolNames
       THEN Return(Err("unknown tool", <<>>), <<>>, currentBranch)
       ELSE IF call.name \notin NoInputTools /\ call.input.json = "bad"
       THEN Return(Err("json", <<>>), <<>>, currentBranch)
       ELSE IF call.name = "run_command" THEN Run(RunCommand(call.input.command))
       ELSE IF call.name = "run_build" THEN Run(RunBuild(call.input.args))
       ELSE IF call.name = "run_tests" THEN Run(RunTests(call.input.args))
       ELSE IF call.name = "push"
       THEN \E gitOk \in [1..2 -> BOOLEAN] : push(call.input, gitOk)
       ELSE IF call.name = "create_branch"
       THEN \E gitOk \in [1..1 -> BOOLEAN] : createBranch(call.input, gitOk)
       ELSE \E ok \in BOOLEAN :
                Return(IF ok THEN NoErr ELSE Err("collaborator error", <<>>),
                       <<>>, currentBranch)

\* cmd.Run() of executeCommand ends and runCommand / runBuild / runTests return.
SubprocessEnds ==
    /\ UNCHANGED outsideVars
    /\ call.phase = "running"
    /\ \E how \in RunOutcomes :
          call' = [call EXCEPT !.phase = "returned",
                               !.err = executeCommandResult(call.line, how)]
    /\ UNCHANGED <<ran, gitRan, currentBranch>>
    /\ UNCHANGED loopVars

(***************************************************************************)
(* The inputs of the sandbox specification: command lines built from a     *)
(* vocabulary of tokens joined by single spaces.                           *)
(***************************************************************************)
Vocabulary == <<
    <<"g","i","t">>, <<"/","u","s","r","/","b","i","n","/","g","i","t">>, <<"p","u","s","h">>, <<"-","f">>, <<"-","u">>, <<"o","r","i","g","i","n"," ","m","a","i","n">>,
    <<"m","y","-","u","p","s","t","r","e","a","m"," ","m","a","i","n">>, <<"r","e","s","e","t"," ","-","-","h","a","r","d">>, <<"l","s">>, <<"r","m">>,
    <<"|">>, <<"&","&">>, <<";">>, <<"&">>, <<"S","u","d","o">> >>

RECURSIVE Join(_)
Join(ts) ==
    IF Len(ts) = 0 THEN <<>>
    ELSE IF Len(ts) = 1 THEN Vocabulary[ts[1]]
    ELSE Vocabulary[ts[1]] \o <<" ">> \o Join(Tail(ts))

TokenSeqs(n) == UNION {[1..k -> 1..Len(Vocabulary)] : k \in 0..n}

\* Branch names a create_branch invocation may carry.
BranchNames == {
    <<"m","a","i","n">>, <<"f","i","x"," ","b","u","g">>, <<".",".">>,
    <<"a",".",".",".","b","~","c","^","d",":","e","?","f","*","g","[","h","]","i","\\","j","@","{","k","@",".","{">>,
    [i \in 1..99 |-> "x"] \o <<".",".","z"," ","~">> }

MainBranch == <<"m","a","i","n">>

(***************************************************************************)
(* bot.go: the Slack bot.  Run starts one goroutine, handleEvents, which   *)
(* takes the events of socketClient.Events one at a time and calls         *)
(* handleEvent for each; an app mention, a direct message or the slash     *)
(* command ends in processMessage, which calls the handler (HandleMessage, *)
(* hence ProcessMessage) and posts the response before it returns.         *)
(***************************************************************************)
ConversationIds == {"thread-1", "thread-2"}

\* The events of the socket: app mentions, direct messages and slash commands, which
\* carry a message for a conversation; messages handleMessageEvent ignores (from a
\* bot, edited, or not in a direct-message channel); and connection notices.
InboundEvents ==
    [type : {"app_mention", "message_im", "slash_command", "message_ignored"},
     conv : ConversationIds]
    \cup {[type |-> "connected", conv |-> "none"]}

NoEvent == [type |-> "none", conv |-> "none"]

\* The events for which handleEvent reaches processMessage.
ReachesProcessMessage(evt) == evt.type \in {"app_mention", "message_im", "slash_command"}

BotIdle ==
    /\ events = <<>>
    /\ handling = NoEvent
    /\ active = [c \in ConversationIds |-> 0]

\* Slack delivers an event.
EventArrives ==
    /\ Len(events) < MaxEvents
    /\ \E evt \in InboundEvents : events' = Append(events, evt)
    /\ UNCHANGED <<handling, active>>
    /\ UNCHANGED notBotVars

\* handleEvents receives the next event and calls handleEvent without waiting for it.
HandleEventInGoroutine ==
    /\ events # <<>>
    /\ events' = Tail(events)
    /\ handling' = NoEvent
    /\ active' = IF ReachesProcessMessage(Head(events))
                 THEN [active EXCEPT ![Head(events).conv] = @ + 1]
                 ELSE active
    /\ UNCHANGED notBotVars

\* handleEvents receives the next event and calls handleEvent: the goroutine is inside
\* that call, and for a message inside ProcessMessage, until processMessage returns.
HandleEvent ==
    /\ handling = NoEvent
    /\ events # <<>>
    /\ events' = Tail(events)
    /\ IF ReachesProcessMessage(Head(events))
       THEN /\ handling' = Head(events)
            /\ active' = [active EXCEPT ![Head(events).conv] = @ + 1]
       ELSE UNCHANGED <<handling, active>>
    /\ UNCHANGED notBotVars

\* The handler has returned and processMessage has posted the response: handleEvent
\* returns to the select of handleEvents.
ProcessMessageReturns ==
    /\ \E c \in ConversationIds :
          /\ active[c] > 0
          /\ active' = [active EXCEPT ![c] = @ - 1]
    /\ handling' = NoEvent
    /\ UNCHANGED events
    /\ UNCHANGED notBotVars

(***************************************************************************)
(* memory.go: the MemoryStore.  A Conversation is a struct on the heap; its *)
(* Messages slice is a pointer to a backing array (a slice is taken to be   *)
(* as long as its array).  CreatedAt and UpdatedAt are left out.  Each      *)
(* method takes mu, runs its body and releases mu; AddMessage's append is   *)
(* two steps, the read of conv.Messages and the write of the new slice.     *)
(***************************************************************************)
Callers == 1..NumCallers

NoCall == [pc |-> "idle", op |-> "none", id |-> "none", channel |-> "none",
           msg |-> [Role |-> "none", Content |-> <<>>], local |-> <<>>,
           at |-> 0, conv |-> 0, ret |-> 0, held |-> 0, dirty |-> FALSE, calls |-> 0]

MemIdle ==
    /\ mu = [writer |-> 0, readers |-> {}]
    /\ conversations = [id \in ConversationIds |-> 0]
    /\ convs = <<>>
    /\ arrays = <<>>
    /\ callers = [c \in Callers |-> NoCall]
    /\ serial = <<>>

\* What a Conversation pointer shows to whoever reads through it.
Absent == [present |-> FALSE, ChannelID |-> "none", Messages |-> <<>>]

ViewOf(ref) ==
    IF ref = 0 THEN Absent
    ELSE [present |-> TRUE, ChannelID |-> convs[ref].ChannelID,
          Messages |-> arrays[convs[ref].Messages]]

\* copyConversation with the Messages slice of the original shared, not copied.
copyConversationShallow(cs, as, ref) ==
    [convs |-> Append(cs, [ID |-> cs[ref].ID, ChannelID |-> cs[ref].ChannelID,
                           Messages |-> cs[ref].Messages]),
     arrays |-> as,
     ref |-> Len(cs) + 1]

\* copyConversation: a new struct with a new Messages array holding the same messages.
copyConversation(cs, as, ref) ==
    [convs |-> Append(cs, [ID |-> cs[ref].ID, ChannelID |-> cs[ref].ChannelID,
                           Messages |-> Len(as) + 1]),
     arrays |-> Append(as, as[cs[ref].Messages]),
     ref |-> Len(cs) + 1]

\* mu.Lock() can return only with neither a writer nor a reader holding mu.
CanLockAnyway(m) == TRUE

CanLock(m) == m.writer = 0 /\ m.readers = {}

\* mu.RLock() can return only with no writer holding mu.
CanRLock(m) == m.writer = 0

\* append(conv.Messages, msg) with the new message put first.
appendInFront(slice, msg) == <<msg>> \o slice

\* append(conv.Messages, msg)
append(slice, msg) == Append(slice, msg)

\* The entry of `serial` for a call that has been granted mu.
Granted(c) ==
    [op |-> callers[c].op, id |-> callers[c].id, channel |-> callers[c].channel,
     msg |-> callers[c].msg, snapshot |-> ViewOf(callers[c].held), by |-> c]

\* A goroutine calls AddMessage(id, channelID, msg), Get(id) or Delete(id), or
\* Save(conv) with a conversation it holds, and waits for mu.
CallStore(c) ==
    /\ callers[c].pc = "idle"
    /\ callers[c].calls < MaxCalls
    /\ \E id \in ConversationIds, op \in {"AddMessage", "Get", "Delete", "Save"} :
          /\ op = "Save" => (callers[c].held # 0 /\ convs[callers[c].held].ID = id)
          /\ callers' = [callers EXCEPT ![c] =
                [@ EXCEPT !.pc = "waiting", !.op = op, !.id = id,
                          !.channel = IF c = 1 THEN "channel-1" ELSE "channel-2",
                          !.msg = [Role |-> IF c = 1 THEN "user" ELSE "assistant",
                                   Content |-> <<c, callers[c].calls + 1>>],
                          !.calls = callers[c].calls + 1]]
    /\ UNCHANGED <<mu, conversations, convs, arrays, serial>>
    /\ UNCHANGED notMemVars

\* s.mu.RLock() of Get, s.mu.Lock() of Save, AddMessage and Delete.
Acquire(c) ==
    /\ callers[c].pc = "waiting"
    /\ IF callers[c].op = "Get"
       THEN /\ CanRLock(mu)
            /\ mu' = [mu EXCEPT !.readers = @ \cup {c}]
       ELSE /\ CanLock(mu)
            /\ mu' = [mu EXCEPT !.writer = c]
    /\ serial' = Append(serial, Granted(c))
    /\ callers' = [callers EXCEPT ![c] = [@ EXCEPT !.pc = "body", !.at = Len(serial) + 1]]
    /\ UNCHANGED <<conversations, convs, arrays>>
    /\ UNCHANGED notMemVars

\* Get: the lookup, and the copy returned.
GetBody(c) ==
    /\ callers[c].pc = "body" /\ callers[c].op = "Get"
    /\ LET ref == conversations[callers[c].id]
       IN  IF ref = 0
           THEN /\ callers' = [callers EXCEPT ![c] = [@ EXCEPT !.pc = "unlock", !.ret = 0]]
                /\ UNCHANGED <<convs, arrays>>
           ELSE LET cp == copyConversation(convs, arrays, ref)
                IN  /\ convs' = cp.convs
                    /\ arrays' = cp.arrays
                    /\ callers' = [callers EXCEPT ![c] =
                                     [@ EXCEPT !.pc = "unlock", !.ret = cp.ref]]
    /\ UNCHANGED <<mu, conversations, serial>>
    /\ UNCHANGED notMemVars

\* Save: a copy of the caller's conversation is put in the map under its ID.
SaveBody(c) ==
    /\ callers[c].pc = "body" /\ callers[c].op = "Save"
    /\ LET cp == copyConversation(convs, arrays, callers[c].held)
       IN  /\ convs' = cp.convs
           /\ arrays' = cp.arrays
           /\ conversations' = [conversations EXCEPT ![convs[callers[c].held].ID] = cp.ref]
    /\ callers' = [callers EXCEPT ![c] = [@ EXCEPT !.pc = "unlock"]]
    /\ UNCHANGED <<mu, serial>>
    /\ UNCHANGED notMemVars

\* AddMessage: the lookup, the creation of an absent conversation, and the read of
\* conv.Messages for the append.
AddMessageLookup(c) ==
    /\ callers[c].pc = "body" /\ callers[c].op = "AddMessage"
    /\ LET ref == conversations[callers[c].id]
       IN  IF ref = 0
           THEN /\ convs' = Append(convs, [ID |-> callers[c].id,
                                           ChannelID |-> callers[c].channel,
                                           Messages |-> Len(arrays) + 1])
                /\ arrays' = Append(arrays, <<>>)
                /\ conversations' = [conversations EXCEPT ![callers[c].id] = Len(convs) + 1]
                /\ callers' = [callers EXCEPT ![c] =
                                 [@ EXCEPT !.pc = "append", !.conv = Len(convs) + 1,
                                           !.local = <<>>]]
           ELSE /\ callers' = [callers EXCEPT ![c] =
                                 [@ EXCEPT !.pc = "append", !.conv = ref,
                                           !.local = arrays[convs[ref].Messages]]]
                /\ UNCHANGED <<conversations, convs, arrays>>
    /\ UNCHANGED <<mu, serial>>
    /\ UNCHANGED notMemVars

\* AddMessage: conv.Messages = append(conv.Messages, msg), through the pointer found or
\* made by the lookup.
AddMessageAppend(c) ==
    /\ callers[c].pc = "append"
    /\ arrays' = [arrays EXCEPT ![convs[callers[c].conv].Messages] =
                     append(callers[c].local, callers[c].msg)]
    /\ callers' = [callers EXCEPT ![c] =
                     [@ EXCEPT !.pc = "unlock", !.conv = 0, !.local = <<>>]]
    /\ UNCHANGED <<mu, conversations, convs, serial>>
    /\ UNCHANGED notMemVars

\* Delete: the entry is removed from the map.
DeleteBody(c) ==
    /\ callers[c].pc = "body" /\ callers[c].op = "Delete"
    /\ conversations' = [conversations EXCEPT ![callers[c].id] = 0]
    /\ callers' = [callers EXCEPT ![c] = [@ EXCEPT !.pc = "unlock"]]
    /\ UNCHANGED <<mu, convs, arrays, serial>>
    /\ UNCHANGED notMemVars

\* The deferred Unlock / RUnlock, and the return: the caller of Get now holds the copy
\* (nil for an absent conversation).
Release(c) ==
    /\ callers[c].pc = "unlock"
    /\ mu' = [writer |-> IF mu.writer = c THEN 0 ELSE mu.writer,
              readers |-> mu.readers \ {c}]
    /\ callers' = [callers EXCEPT ![c] =
            IF callers[c].op = "Get"
            THEN [@ EXCEPT !.pc = "idle", !.held = callers[c].ret, !.ret = 0,
                           !.dirty = FALSE]
            ELSE [@ EXCEPT !.pc = "idle"]]
    /\ UNCHANGED <<conversations, convs, arrays, serial>>
    /\ UNCHANGED notMemVars

Tampered == [Role |-> "tampered", Content |-> <<>>]

\* Between its calls a goroutine changes the conversation it holds (the one Get
\* returned, or the one it passed to Save): a field, a message, or the message list.
Mutate(c) ==
    /\ callers[c].pc = "idle"
    /\ callers[c].held # 0
    /\ ~callers[c].dirty
    /\ LET ref == callers[c].held
           arr == convs[ref].Messages
       IN  \/ /\ convs' = [convs EXCEPT ![ref].ChannelID = "tampered"]
              /\ UNCHANGED arrays
           \/ /\ arrays[arr] # <<>>
              /\ arrays' = [arrays EXCEPT ![arr][1] = Tampered]
              /\ UNCHANGED convs
           \/ /\ arrays' = [arrays EXCEPT ![arr] = Append(@, Tampered)]
              /\ UNCHANGED convs
    /\ callers' = [callers EXCEPT ![c] = [@ EXCEPT !.dirty = TRUE]]
    /\ UNCHANGED <<mu, conversations, serial>>
    /\ UNCHANGED notMemVars

(***************************************************************************)
(* runner.go: one call of executeCommand.  The subprocess runs on its own;  *)
(* cmd.Stdout and cmd.Stderr are limitedWriters, so for each stream a       *)
(* goroutine of os/exec copies the pipe into the writer, one Write per      *)
(* chunk read, and stops at the first Write that returns an error or fewer  *)
(* bytes than it was given.  A goroutine of os/exec kills the subprocess    *)
(* once the context is done.  A byte is named by its offset in its stream,  *)
(* a buffer is the list of the offset ranges written to it.                 *)
(***************************************************************************)
\* MaxOutputSize
MaxOutputSize == 100 * 1024

Streams == {"stdout", "stderr"}

\* Sizes of the chunks a copying goroutine hands to Write (io.Copy reads at most 32768
\* bytes at a time).
ChunkSizes == {1, 4096, 32768}

NoWrite == [len |-> 0, n |-> 0, err |-> "nil"]

NoResult == [returned |-> FALSE, err |-> "nil", ExitCode |-> 0, TimedOut |-> FALSE,
             Stdout |-> <<>>, Stderr |-> <<>>]

RunIdle ==
    /\ proc = [state |-> "notStarted", code |-> 0, killed |-> FALSE]
    /\ deadline = [expired |-> FALSE, runningAtExpiry |-> FALSE]
    /\ streams = [s \in Streams |->
                    [buf |-> <<>>, written |-> 0, total |-> 0, calls |-> 0,
                     copier |-> "copying", last |-> NoWrite]]
    /\ cmdResult = NoResult

\* bytes.Buffer.Write of the bytes lo..hi of the stream.
BufferWrite(buf, lo, hi) ==
    IF hi < lo THEN buf
    ELSE IF buf # <<>> /\ buf[Len(buf)][2] + 1 = lo
         THEN [buf EXCEPT ![Len(buf)] = <<buf[Len(buf)][1], hi>>]
         ELSE Append(buf, <<lo, hi>>)

\* The buffer holding the first k bytes of its stream.
FirstBytes(k) == IF k = 0 THEN <<>> ELSE << <<1, k>> >>

\* limitedWriter.Write(p), p the next len bytes of the stream: the writer afterwards and
\* the (n, err) returned.  p is re-sliced to what still fits before it is written, and
\* the length returned is the length of p after that.
Write(lw, len) ==
    LET remaining == MaxOutputSize - lw.written
        kept == IF len > remaining THEN remaining ELSE len
    IN  IF remaining <= 0
        THEN [lw EXCEPT !.total = lw.total + len, !.calls = lw.calls + 1,
                        !.last = [len |-> len, n |-> len, err |-> "nil"]]
        ELSE [lw EXCEPT !.buf = BufferWrite(lw.buf, lw.total + 1, lw.total + kept),
                        !.written = lw.written + kept,
                        !.total = lw.total + len, !.calls = lw.calls + 1,
                        !.last = [len |-> len, n |-> kept, err |-> "nil"]]

\* cmd.Start(): the subprocess starts, or fails to.
StartCommand ==
    /\ proc.state = "notStarted"
    /\ \E ok \in BOOLEAN :
          proc' = [proc EXCEPT !.state = IF ok THEN "running" ELSE "startFailed"]
    /\ UNCHANGED <<deadline, streams, cmdResult>>
    /\ UNCHANGED notRunVars

\* The subprocess writes a chunk to a stream and the stream's goroutine hands it to the
\* limitedWriter; a Write that returns less than the chunk ends the copy with
\* io.ErrShortWrite and the goroutine closes the pipe.
SubprocessWrites(s, len) ==
    /\ proc.state = "running"
    /\ streams[s].copier = "copying"
    /\ streams[s].calls < MaxWrites
    /\ LET lw == Write(streams[s], len)
       IN  streams' = [streams EXCEPT ![s] =
              [lw EXCEPT !.copier = IF lw.last.n # len \/ lw.last.err # "nil"
                                    THEN "short write" ELSE "copying"]]
    /\ UNCHANGED <<proc, deadline, cmdResult>>
    /\ UNCHANGED notRunVars

\* The subprocess exits on its own, with status 0 or 1.
SubprocessExits ==
    /\ proc.state = "running"
    /\ \E code \in {0, 1} : proc' = [proc EXCEPT !.state = "exited", !.code = code]
    /\ UNCHANGED <<deadline, streams, cmdResult>>
    /\ UNCHANGED notRunVars

\* The subprocess writes to a pipe whose reading end was closed and dies of SIGPIPE
\* (ProcessState.ExitCode() is -1 for a process ended by a signal).
SubprocessDiesOfSIGPIPE ==
    /\ proc.state = "running"
    /\ \E s \in Streams : streams[s].copier = "short write"
    /\ proc' = [proc EXCEPT !.state = "exited", !.code = -1]
    /\ UNCHANGED <<deadline, streams, cmdResult>>
    /\ UNCHANGED notRunVars

\* The deadline of context.WithTimeout expires while cmd.Run() has not returned.
DeadlineExpires ==
    /\ ~deadline.expired
    /\ proc.state # "notStarted"
    /\ ~cmdResult.returned
    /\ deadline' = [expired |-> TRUE, runningAtExpiry |-> proc.state = "running"]
    /\ UNCHANGED <<proc, streams, cmdResult>>
    /\ UNCHANGED notRunVars

\* The goroutine of os/exec watching the context sees it done and kills the subprocess.
KillSubprocess ==
    /\ deadline.expired
    /\ proc.state = "running"
    /\ proc' = [proc EXCEPT !.state = "exited", !.code = -1, !.killed = TRUE]
    /\ UNCHANGED <<deadline, streams, cmdResult>>
    /\ UNCHANGED notRunVars

\* The error of cmd.Run(): the failure to start; an *exec.ExitError for a status other
\* than 0; else the context's error if the watching goroutine reports one (watchErr);
\* else the error of a copying goroutine; else nil.
RunError(watchErr) ==
    IF proc.state = "startFailed" THEN "start failed"
    ELSE IF proc.code # 0 THEN "ExitError"
    ELSE IF watchErr THEN "context deadline exceeded"
    ELSE IF \E s \in Streams : streams[s].copier = "short write" THEN "short write"
    ELSE "nil"

\* executeCommand after cmd.Run(): the result built, its exit code, or the error.
\* With the context done and the subprocess gone on its own, the watching goroutine's
\* Kill succeeds on the process not yet reaped (it reports the context's error) or
\* finds the process finished (it reports nothing).
RunReturns ==
    /\ proc.state \in {"exited", "startFailed"}
    /\ ~cmdResult.returned
    /\ \E watchErr \in BOOLEAN :
          /\ watchErr => (deadline.expired /\ proc.state = "exited")
          /\ LET err == RunError(watchErr)
                 result == [returned |-> TRUE, err |-> "nil", ExitCode |-> 0,
                            TimedOut |-> deadline.expired,
                            Stdout |-> streams["stdout"].buf,
                            Stderr |-> streams["stderr"].buf]
             IN  cmdResult' =
                    IF err = "nil" THEN result
                    ELSE IF err = "ExitError" THEN [result EXCEPT !.ExitCode = proc.code]
                    ELSE IF result.TimedOut THEN [result EXCEPT !.ExitCode = -1]
                    ELSE [NoResult EXCEPT !.returned = TRUE, !.err = "command failed"]
    /\ UNCHANGED <<proc, deadline, streams>>
    /\ UNCHANGED notRunVars

(***************************************************************************)
(* The file tools: Reader, Writer and Searcher on the repository path.     *)
(***************************************************************************)
\* The tools of the dispatcher that take a path or a pattern.
FileTools == {"read_file", "write_file", "edit_file", "list_files", "search_code", "get_tree"}

\* The repository path the Reader, the Writer and the Searcher are built with.
RepoPath == <<"/","w","/","r">>

\* strings.HasPrefix
HasPrefix(s, prefix) ==
    Len(s) >= Len(prefix) /\ SubSeq(s, 1, Len(prefix)) = prefix

\* strings.TrimPrefix
TrimPrefix(s, prefix) ==
    IF HasPrefix(s, prefix) THEN SubSeq(s, Len(prefix) + 1, Len(s)) ELSE s

\* The elements of a path joined with the separator.
RECURSIVE JoinElements(_)
JoinElements(elems) ==
    IF Len(elems) = 0 THEN <<>>
    ELSE IF Len(elems) = 1 THEN elems[1]
    ELSE elems[1] \o <<"/">> \o JoinElements(Tail(elems))

\* The elements filepath.Clean keeps: empty and "." elements go, a ".." takes the
\* element before it away, a ".." at the start of a rooted path goes, and a ".." at
\* the start of a relative path stays.
RECURSIVE CleanElements(_, _, _)
CleanElements(elems, kept, rooted) ==
    IF Len(elems) = 0 THEN kept
    ELSE LET e == elems[1]
             rest == Tail(elems)
         IN  IF e = <<>> \/ e = <<".">> THEN CleanElements(rest, kept, rooted)
             ELSE IF e = <<".", ".">>
                  THEN IF Len(kept) > 0 /\ kept[Len(kept)] # <<".", ".">>
                       THEN CleanElements(rest, SubSeq(kept, 1, Len(kept) - 1), rooted)
                       ELSE IF rooted THEN CleanElements(rest, kept, rooted)
                       ELSE CleanElements(rest, Append(kept, e), rooted)
             ELSE CleanElements(rest, Append(kept, e), rooted)

\* filepath.Clean: the shortest path equivalent to path by lexical processing;
\* "." for the empty result.
Clean(path) ==
    LET rooted == Len(path) > 0 /\ path[1] = "/"
        kept == JoinElements(CleanElements(Split(path, "/"), <<>>, rooted))
        out == IF rooted THEN <<"/">> \o kept ELSE kept
    IN  IF out = <<>> THEN <<".">> ELSE out

\* filepath.Join of two elements: the empty ones ignored, the result cleaned.
JoinPath(a, b) ==
    IF a = <<>> /\ b = <<>> THEN <<>>
    ELSE IF a = <<>> THEN Clean(b)
    ELSE IF b = <<>> THEN Clean(a)
    ELSE Clean(a \o <<"/">> \o b)

\* filepath.Abs of a path that is absolute already.
Abs(path) == Clean(path)

\* filepath.Dir: all but the last element of the path, cleaned.
Dir(path) ==
    LET at == {i \in 1..Len(path) : path[i] = "/"}
    IN  IF at = {} THEN <<".">>
        ELSE LET p == CHOOSE i \in at : \A k \in at : k <= i
             IN  Clean(SubSeq(path, 1, p))

\* Reader.resolvePath and Writer.resolvePath: the absolute path of the argument, or
\* no path when the result does not start with the text of the repository path.
NoPath == <<>>
resolvePath(path) ==
    LET cleaned == TrimPrefix(Clean(path), <<"/">>)
        fullPath == JoinPath(RepoPath, cleaned)
        absPath == Abs(fullPath)
        absRepoPath == Abs(RepoPath)
    IN  IF ~HasPrefix(absPath, absRepoPath) THEN NoPath ELSE absPath

\* The root Searcher.SearchCode walks and Searcher.GetTree lists.
searchRoot(path) == IF path # <<>> THEN JoinPath(RepoPath, path) ELSE RepoPath

\* The pattern Searcher.ListFiles hands to the glob matcher.
fullPattern(pattern) == JoinPath(RepoPath, TrimPrefix(pattern, <<"/">>))

\* Path and pattern arguments an invocation of a file tool may carry.
PathArguments ==
    { <<"a">>,
      <<"s","/","a">>,
      <<"/","s","/","a">>,
      <<"s","/",".","/","/","a">>,
      <<"s","/",".",".","/","a">>,
      <<>>,
      <<".">>,
      <<".",".">>,
      <<".",".","/","x">>,
      <<"s","/",".",".","/",".",".","/","x">>,
      <<"/",".",".","/","x">>,
      <<".",".","/","r","/","a">>,
      <<".",".","/","r","x","/","k">>,
      <<".",".","/",".",".","/","e","t","c">> }

NoFileOp == [phase |-> "idle", tool |-> "", arg |-> <<>>, touched |-> {}, err |-> "nil"]

FileIdle == fileOp = NoFileOp

\* The model asks for a file tool with a path or pattern argument.
CallFileTool ==
    /\ fileOp.phase = "idle"
    /\ \E t \in FileTools, a \in PathArguments :
          fileOp' = [NoFileOp EXCEPT !.phase = "called", !.tool = t, !.arg = a]
    /\ UNCHANGED notFileVars

\* A file tool returns: the locations the operating system was asked for, the error.
FileReturn(touched, err) ==
    /\ fileOp' = [fileOp EXCEPT !.phase = "returned", !.touched = touched, !.err = err]
    /\ UNCHANGED notFileVars

\* The outcomes of a call of the operating system on a path.
OsOutcomes(failure) == {"nil", failure}

\* readFile: Reader.ReadFile (or ReadFileLines) resolves the path and reads it.
readFile ==
    /\ fileOp.phase = "called" /\ fileOp.tool = "read_file"
    /\ LET fullPath == resolvePath(fileOp.arg)
       IN  IF fullPath = NoPath THEN FileReturn({}, "path escapes repository")
           ELSE \E err \in OsOutcomes("failed to read file") : FileReturn({fullPath}, err)

\* writeFile: Writer.WriteFile resolves the path, makes the parent directories and
\* writes the file.
writeFile ==
    /\ fileOp.phase = "called" /\ fileOp.tool = "write_file"
    /\ LET fullPath == resolvePath(fileOp.arg)
       IN  IF fullPath = NoPath THEN FileReturn({}, "path escapes repository")
           ELSE \/ FileReturn({Dir(fullPath)}, "failed to create directories")
                \/ \E err \in OsOutcomes("failed to write file") :
                      FileReturn({Dir(fullPath), fullPath}, err)

\* editFile: Writer.EditFile resolves the path, reads the file and writes it back.
editFile ==
    /\ fileOp.phase = "called" /\ fileOp.tool = "edit_file"
    /\ LET fullPath == resolvePath(fileOp.arg)
       IN  IF fullPath = NoPath THEN FileReturn({}, "path escapes repository")
           ELSE \E err \in {"nil", "failed to read file", "old_text not found in file",
                            "failed to write file"} : FileReturn({fullPath}, err)

\* listFiles: Searcher.ListFiles matches the pattern joined onto the repository path.
listFiles ==
    /\ fileOp.phase = "called" /\ fileOp.tool = "list_files"
    /\ \E err \in OsOutcomes("invalid glob pattern") :
          FileReturn({fullPattern(fileOp.arg)}, err)

\* searchCode: Searcher.SearchCode walks the directory joined onto the repository path.
searchCode ==
    /\ fileOp.phase = "called" /\ fileOp.tool = "search_code"
    /\ \/ FileReturn({}, "invalid pattern")
       \/ FileReturn({searchRoot(fileOp.arg)}, "nil")

\* getTree: Searcher.GetTree lists the directory joined onto the repository path.
getTree ==
    /\ fileOp.phase = "called" /\ fileOp.tool = "get_tree"
    /\ \E err \in OsOutcomes("ReadDir") : FileReturn({searchRoot(fileOp.arg)}, err)

\* The dispatcher hands the result of the file tool back.
FileToolCollect ==
    /\ fileOp.phase = "returned"
    /\ fileOp' = NoFileOp
    /\ UNCHANGED notFileVars

(***************************************************************************)
(* The context of main: every turn runs under it.                          *)
(***************************************************************************)
CtxLive == ctx = "live"

\* main receives SIGINT or SIGTERM and calls cancel().
Cancel ==
    /\ ctx = "live"
    /\ ctx' = "cancelled"
    /\ UNCHANGED notCtxVars

\* The components outside the conversation manager and the dispatcher, at rest.
OutsideIdle == BotIdle /\ MemIdle /\ RunIdle /\ FileIdle /\ CtxLive

(***************************************************************************)
(* Sandbox specification: tool invocations arrive at the dispatcher one at *)
(* a time, with arbitrary arguments.                                       *)
(***************************************************************************)
LoopIdle ==
    /\ pc = "Idle" /\ iter = 0 /\ modelCalls = 0 /\ toolExecs = 0 /\ toolTurns = 0
    /\ toolUses = <<>> /\ pending = <<>> /\ results = <<>>
    /\ messages = <<>> /\ outcome = "none"
    /\ store = [present |-> FALSE, Messages |-> <<>>] /\ logged = {}

WorldInit ==
    /\ call = IdleCall /\ ran = <<>> /\ gitRan = <<>>
    /\ currentBranch = MainBranch

Issue(name, input) ==
    /\ UNCHANGED outsideVars
    /\ call' = Calling(1, name, input)
    /\ UNCHANGED <<ran, gitRan, currentBranch>>
    /\ UNCHANGED loopVars

\* run_command with any command line of the vocabulary.
IssueRunCommand ==
    /\ call.phase = "idle"
    /\ \E ts \in TokenSeqs(MaxTokens) :
          Issue("run_command", Input("ok", Join(ts), <<>>, <<>>, "absent"))

\* run_build / run_tests with any argument string.
IssueRunBuild ==
    /\ call.phase = "idle"
    /\ \E ts \in TokenSeqs(MaxArgTokens), name \in {"run_build", "run_tests"} :
          Issue(name, Input("ok", <<>>, Join(ts), <<>>, "absent"))

\* push and create_branch.
IssueGit ==
    /\ call.phase = "idle"
    /\ \/ \E up \in {"absent", "true", "false"} : Issue("push", Input("ok", <<>>, <<>>, <<>>, up))
       \/ \E b \in BranchNames : Issue("create_branch", Input("ok", <<>>, <<>>, b, "absent"))

\* Any other tool name, known or not, and inputs that do not decode.
IssueOther ==
    /\ call.phase = "idle"
    /\ \/ \E name \in (ToolNames \cup GetAllTools \cup {"frobnicate"})
                        \ {"run_command", "run_build", "run_tests", "push", "create_branch"} :
             Issue(name, NoInput)
       \/ \E name \in ToolNames : Issue(name, Input("bad", <<>>, <<>>, <<>>, "absent"))

\* The caller takes the result; the dispatcher is free again.
Collect ==
    /\ UNCHANGED outsideVars
    /\ call.phase = "returned"
    /\ call' = IdleCall
    /\ ran' = <<>> /\ gitRan' = <<>>
    /\ UNCHANGED currentBranch
    /\ UNCHANGED loopVars

SandboxInit == LoopIdle /\ WorldInit /\ OutsideIdle

SandboxNext ==
    \/ IssueRunCommand
    \/ IssueRunBuild
    \/ IssueGit
    \/ IssueOther
    \/ Execute
    \/ SubprocessEnds
    \/ Collect

SandboxSpec == SandboxInit /\ [][SandboxNext]_vars

(***************************************************************************)
(* Validator specification: run_command invocations whose command lines    *)
(* exercise the steps of ValidateCommand: case, path qualification, blank   *)
(* text, the pattern-like deny-list entries, pipes and long chains.         *)
(***************************************************************************)
ValidatorVocabulary == <<
    <<"l","s">>, <<"L","S">>, <<"/","u","s","r","/","b","i","n","/","l","s">>, <<"l","s","/">>,
    <<"r","m">>, <<"S","u","d","o">>, <<" ","\t"," ">>,
    <<"c","u","r","l"," ","h","t","t","p",":","/","/","x">>, <<"s","h">>,
    <<"c","u","r","l",".","*","|",".","*","s","h">>, <<"E","x","p","o","r","t",".","*","=">>,
    <<"|">>, <<"&","&">>, <<";">>,
    <<"l","s",";","l","s","&","&","l","s",";",";","l","s","&","&","l","s">> >>

RECURSIVE JoinWords(_)
JoinWords(ws) ==
    IF Len(ws) = 0 THEN <<>>
    ELSE IF Len(ws) = 1 THEN ValidatorVocabulary[ws[1]]
    ELSE ValidatorVocabulary[ws[1]] \o <<" ">> \o JoinWords(Tail(ws))

ValidatorLines ==
    {JoinWords(ws) : ws \in UNION {[1..k -> 1..Len(ValidatorVocabulary)] : k \in 0..MaxWords}}

\* run_command with a command line of the validator vocabulary.
IssueValidatorCase ==
    /\ call.phase = "idle"
    /\ \E line \in ValidatorLines :
          Issue("run_command", Input("ok", line, <<>>, <<>>, "absent"))

ValidatorInit == LoopIdle /\ WorldInit /\ OutsideIdle

ValidatorNext ==
    \/ IssueValidatorCase
    \/ Execute
    \/ SubprocessEnds
    \/ Collect

ValidatorSpec == ValidatorInit /\ [][ValidatorNext]_vars

(***************************************************************************)
(* conversation.go: ProcessMessage and processWithToolLoop.                *)
(***************************************************************************)
\* const maxIterations of processWithToolLoop.
maxIterations == 20

\* The tool invocations a model response may carry in the loop specification.
LoopInvocations == {
    [name |-> "read_file", input |-> NoInput],
    [name |-> "run_command", input |-> Input("ok", <<"l","s">>, <<>>, <<>>, "absent")],
    [name |-> "run_command", input |-> Input("ok", <<"r","m">>, <<>>, <<>>, "absent")],
    [name |-> "run_build", input |-> NoInput],
    [name |-> "push", input |-> NoInput],
    [name |-> "frobnicate", input |-> NoInput],
    [name |-> "read_file", input |-> Input("bad", <<>>, <<>>, <<>>, "absent")] }

\* A model response: its stop reason and its tool-use blocks, in order.
Responses ==
    [stop : {"tool_use", "end_turn"},
     uses : UNION {[1..n -> LoopInvocations] : n \in 0..MaxToolUses}]

\* A tool-use test that looks at the content blocks instead of the stop reason.
HasToolUseByBlocks(response) == Len(response.uses) > 0

\* HasToolUse: decided by the stop reason alone.
HasToolUse(response) == response.stop = "tool_use"

\* ExtractToolUses: the tool-use blocks, each with its id (here its position).
ExtractToolUses(response) ==
    [k \in 1..Len(response.uses) |->
        [id |-> k, name |-> response.uses[k].name, input |-> response.uses[k].input]]

\* ConversationStore.AddMessage on the conversation id: the conversation is created
\* if it is absent and the message appended.
AddMessage(conv, role) == [present |-> TRUE, Messages |-> Append(conv.Messages, role)]

\* buildMessageHistory: one turn per stored message whose role is user or assistant.
buildMessageHistory(conv) ==
    IF ~conv.present THEN <<>>
    ELSE SelectSeq(conv.Messages, LAMBDA role : role \in {"user", "assistant"})

\* ProcessMessage up to the call of processWithToolLoop: the conversation is read
\* from the store (an error of Get ends the turn), the history is built, the user
\* message is appended to it and written to the store (an error of AddMessage is
\* logged).  Any call of the ConversationStore interface may return an error.
ReceiveMessage ==
    /\ UNCHANGED outsideVars
    /\ pc \in {"Idle", "Done", "Failed"}
    /\ Len(store.Messages) <= MaxHistory
    /\ iter' = 0 /\ modelCalls' = 0 /\ toolExecs' = 0 /\ toolTurns' = 0
    /\ toolUses' = <<>> /\ pending' = <<>> /\ results' = <<>>
    /\ \E getOk, addOk \in BOOLEAN :
          IF ~getOk
          THEN /\ pc' = "Failed"
               /\ outcome' = "failed to get conversation"
               /\ messages' = <<>>
               /\ logged' = {}
               /\ UNCHANGED store
          ELSE /\ pc' = "AwaitingModel"
               /\ outcome' = "none"
               /\ messages' = Append(buildMessageHistory(store), "user")
               /\ store' = IF addOk THEN AddMessage(store, "user") ELSE store
               /\ logged' = IF addOk THEN {} ELSE {"failed to store user message"}
    /\ UNCHANGED <<call, ran, gitRan, currentBranch>>

\* CreateMessageWithTools returns an error: the loop returns "claude API error".
ModelFails ==
    /\ UNCHANGED outsideVars
    /\ pc = "AwaitingModel"
    /\ modelCalls' = modelCalls + 1
    /\ pc' = "Failed"
    /\ outcome' = "claude API error"
    /\ UNCHANGED <<iter, toolExecs, toolTurns, toolUses, pending, results, messages>>
    /\ UNCHANGED <<store, logged>>
    /\ UNCHANGED <<call, ran, gitRan, currentBranch>>

\* The handling of a response with an error of the assistant message's AddMessage
\* returned to the caller instead of logged.
ModelRespondsWriteFatal ==
    /\ UNCHANGED outsideVars
    /\ pc = "AwaitingModel"
    /\ ctx = "live"
    /\ modelCalls' = modelCalls + 1
    /\ \E response \in Responses :
          /\ toolTurns' = toolTurns + (IF response.stop = "tool_use" THEN 1 ELSE 0)
          /\ IF ~HasToolUse(response)
             THEN /\ \E addOk \in BOOLEAN :
                        /\ pc' = IF addOk THEN "Done" ELSE "Failed"
                        /\ outcome' = IF addOk THEN "text" ELSE "failed to store message"
                        /\ store' = IF addOk THEN AddMessage(store, "assistant") ELSE store
                        /\ logged' = logged
                  /\ UNCHANGED <<toolUses, pending, results, messages>>
             ELSE /\ pc' = "ExecutingTools"
                  /\ UNCHANGED <<store, logged>>
                  /\ toolUses' = ExtractToolUses(response)
                  /\ pending' = ExtractToolUses(response)
                  /\ results' = <<>>
                  /\ messages' = Append(messages, "assistant_tool_use")
                  /\ UNCHANGED outcome
    /\ UNCHANGED <<iter, toolExecs>>
    /\ UNCHANGED <<call, ran, gitRan, currentBranch>>

\* The response handled although the context is done: the client called with a
\* context of its own instead of the turn's.
ModelRespondsIgnoringCtx ==
    /\ UNCHANGED outsideVars
    /\ pc = "AwaitingModel"
    /\ modelCalls' = modelCalls + 1
    /\ \E response \in Responses :
          /\ toolTurns' = toolTurns + (IF response.stop = "tool_use" THEN 1 ELSE 0)
          /\ IF ~HasToolUse(response)
             THEN /\ pc' = "Done"
                  /\ outcome' = "text"
                  /\ \E addOk \in BOOLEAN :
                        /\ store' = IF addOk THEN AddMessage(store, "assistant") ELSE store
                        /\ logged' = IF addOk THEN logged
                                     ELSE logged \cup {"failed to store assistant message"}
                  /\ UNCHANGED <<toolUses, pending, results, messages>>
             ELSE /\ pc' = "ExecutingTools"
                  /\ UNCHANGED <<store, logged>>
                  /\ toolUses' = ExtractToolUses(response)
                  /\ pending' = ExtractToolUses(response)
                  /\ results' = <<>>
                  /\ messages' = Append(messages, "assistant_tool_use")
                  /\ UNCHANGED outcome
    /\ UNCHANGED <<iter, toolExecs>>
    /\ UNCHANGED <<call, ran, gitRan, currentBranch>>

\* CreateMessageWithTools returns a response (Messages.New returns one only while the
\* context it was given is live).  Without tool use the loop returns its
\* text, which ProcessMessage writes to the store (an error of AddMessage is logged)
\* and returns; otherwise the assistant turn is appended and the tool uses are queued.
ModelResponds ==
    /\ UNCHANGED outsideVars
    /\ pc = "AwaitingModel"
    /\ ctx = "live"
    /\ modelCalls' = modelCalls + 1
    /\ \E response \in Responses :
          /\ toolTurns' = toolTurns + (IF response.stop = "tool_use" THEN 1 ELSE 0)
          /\ IF ~HasToolUse(response)
             THEN /\ pc' = "Done"
                  /\ outcome' = "text"
                  /\ \E addOk \in BOOLEAN :
                        /\ store' = IF addOk THEN AddMessage(store, "assistant") ELSE store
                        /\ logged' = IF addOk THEN logged
                                     ELSE logged \cup {"failed to store assistant message"}
                  /\ UNCHANGED <<toolUses, pending, results, messages>>
             ELSE /\ pc' = "ExecutingTools"
                  /\ UNCHANGED <<store, logged>>
                  /\ toolUses' = ExtractToolUses(response)
                  /\ pending' = ExtractToolUses(response)
                  /\ results' = <<>>
                  /\ messages' = Append(messages, "assistant_tool_use")
                  /\ UNCHANGED outcome
    /\ UNCHANGED <<iter, toolExecs>>
    /\ UNCHANGED <<call, ran, gitRan, currentBranch>>

\* m.executor is called with the next tool use of the response.
StartTool ==
    /\ UNCHANGED outsideVars
    /\ pc = "ExecutingTools"
    /\ pending # <<>>
    /\ call.phase = "idle"
    /\ call' = Calling(Head(pending).id, Head(pending).name, Head(pending).input)
    /\ toolExecs' = toolExecs + 1
    /\ UNCHANGED <<pc, iter, modelCalls, toolTurns, toolUses, pending, results, messages, outcome>>
    /\ UNCHANGED <<store, logged>>
    /\ UNCHANGED <<ran, gitRan, currentBranch>>

\* The result of the finished executor call put in front of the earlier ones.
CollectResultInFront ==
    /\ UNCHANGED outsideVars
    /\ pc = "ExecutingTools"
    /\ call.phase = "returned"
    /\ results' = <<[ToolUseID |-> call.id, IsError |-> call.err # NoErr]>> \o results
    /\ pending' = Tail(pending)
    /\ call' = IdleCall
    /\ ran' = <<>> /\ gitRan' = <<>>
    /\ UNCHANGED <<pc, iter, modelCalls, toolExecs, toolTurns, toolUses, messages, outcome>>
    /\ UNCHANGED <<store, logged>>
    /\ UNCHANGED currentBranch

\* m.executor has returned: its ToolResult is appended to results.
CollectResult ==
    /\ UNCHANGED outsideVars
    /\ pc = "ExecutingTools"
    /\ call.phase = "returned"
    /\ results' = Append(results, [ToolUseID |-> call.id, IsError |-> call.err # NoErr])
    /\ pending' = Tail(pending)
    /\ call' = IdleCall
    /\ ran' = <<>> /\ gitRan' = <<>>
    /\ UNCHANGED <<pc, iter, modelCalls, toolExecs, toolTurns, toolUses, messages, outcome>>
    /\ UNCHANGED <<store, logged>>
    /\ UNCHANGED currentBranch

\* The end of an iteration with the loop test off by one (i <= maxIterations).
FinishIterationOffByOne ==
    /\ UNCHANGED outsideVars
    /\ pc = "ExecutingTools"
    /\ pending = <<>>
    /\ call.phase = "idle"
    /\ messages' = Append(messages, "tool_results")
    /\ iter' = iter + 1
    /\ IF iter + 1 <= maxIterations
       THEN pc' = "AwaitingModel" /\ UNCHANGED outcome
       ELSE pc' = "Failed" /\ outcome' = "exceeded maximum tool use iterations"
    /\ toolUses' = <<>>
    /\ UNCHANGED <<modelCalls, toolExecs, toolTurns, pending, results>>
    /\ UNCHANGED <<store, logged>>
    /\ UNCHANGED <<call, ran, gitRan, currentBranch>>

\* All tool uses of the response are done: the tool-results turn is appended, i++,
\* and the loop either calls the model again or gives up at maxIterations.
FinishIteration ==
    /\ UNCHANGED outsideVars
    /\ pc = "ExecutingTools"
    /\ pending = <<>>
    /\ call.phase = "idle"
    /\ messages' = Append(messages, "tool_results")
    /\ iter' = iter + 1
    /\ IF iter + 1 < maxIterations
       THEN pc' = "AwaitingModel" /\ UNCHANGED outcome
       ELSE pc' = "Failed" /\ outcome' = "exceeded maximum tool use iterations"
    /\ toolUses' = <<>>
    /\ UNCHANGED <<modelCalls, toolExecs, toolTurns, pending, results>>
    /\ UNCHANGED <<store, logged>>
    /\ UNCHANGED <<call, ran, gitRan, currentBranch>>

Init == LoopIdle /\ WorldInit /\ OutsideIdle

Next ==
    \/ ReceiveMessage
    \/ ModelFails
    \/ ModelResponds
    \/ StartTool
    \/ Execute
    \/ SubprocessEnds
    \/ CollectResult
    \/ FinishIteration

Spec == Init /\ [][Next]_vars

(***************************************************************************)
(* The turn under a context that main may cancel at any moment.            *)
(***************************************************************************)
CancelInit == LoopIdle /\ WorldInit /\ OutsideIdle

CancelNext ==
    \/ ReceiveMessage
    \/ ModelFails
    \/ ModelResponds
    \/ StartTool
    \/ Execute
    \/ SubprocessEnds
    \/ CollectResult
    \/ FinishIteration
    \/ Cancel

CancelSpec == CancelInit /\ [][CancelNext]_vars

(***************************************************************************)
(* Bot specification: events arrive and handleEvents works through them.   *)
(***************************************************************************)
BotInit == LoopIdle /\ WorldInit /\ OutsideIdle

BotNext ==
    \/ EventArrives
    \/ HandleEvent
    \/ ProcessMessageReturns

BotSpec == BotInit /\ [][BotNext]_vars

(***************************************************************************)
(* Store specification: goroutines call the MemoryStore concurrently.      *)
(***************************************************************************)
StoreInit == LoopIdle /\ WorldInit /\ OutsideIdle

StoreNext ==
    \E c \in Callers :
        \/ CallStore(c)
        \/ Acquire(c)
        \/ GetBody(c)
        \/ SaveBody(c)
        \/ AddMessageLookup(c)
        \/ AddMessageAppend(c)
        \/ DeleteBody(c)
        \/ Release(c)
        \/ Mutate(c)

StoreSpec == StoreInit /\ [][StoreNext]_vars

(***************************************************************************)
(* Runner specification: one executeCommand call and its subprocess.       *)
(***************************************************************************)
RunnerInit == LoopIdle /\ WorldInit /\ OutsideIdle

RunnerNext ==
    \/ StartCommand
    \/ \E s \in Streams, len \in ChunkSizes : SubprocessWrites(s, len)
    \/ SubprocessExits
    \/ SubprocessDiesOfSIGPIPE
    \/ DeadlineExpires
    \/ KillSubprocess
    \/ RunReturns

RunnerSpec == RunnerInit /\ [][RunnerNext]_vars

(***************************************************************************)
(* The file tools on their own: one invocation after another.              *)
(***************************************************************************)
FileInit == LoopIdle /\ WorldInit /\ OutsideIdle

FileNext ==
    \/ CallFileTool
    \/ readFile
    \/ writeFile
    \/ editFile
    \/ listFiles
    \/ searchCode
    \/ getTree
    \/ FileToolCollect

FileSpec == FileInit /\ [][FileNext]_vars

(***************************************************************************)
(* How `sh -c` and git read a command line, for the properties below.  The *)
(* vocabulary holds no quoting, redirection or command substitution.       *)
(***************************************************************************)
\* The characters of the shell's control operators |, ||, &, &&, ; and newline.
ControlChars == {"|", "&", ";", "\n"}

\* The pieces of s between characters of seps.
RECURSIVE SplitAny(_, _)
SplitAny(s, seps) ==
    LET at == {i \in 1..Len(s) : s[i] \in seps}
    IN  IF at = {} THEN <<s>>
        ELSE <<SubSeq(s, 1, Least(at) - 1)>> \o SplitAny(SubSeq(s, Least(at) + 1, Len(s)), seps)

\* The simple commands the shell starts for a command line, each as its words.
SimpleCommands(line) ==
    LET pieces == SplitAny(line, ControlChars)
    IN  {Fields(pieces[k]) : k \in 1..Len(pieces)} \ {<<>>}

\* The last path segment of a word.
BaseName(word) == LET parts == Split(word, "/") IN parts[Len(parts)]

IsGit(words) == BaseName(words[1]) = <<"g","i","t">>

HasWord(words, w) == \E i \in 2..Len(words) : words[i] = w

\* `git push ...`: push is the subcommand (the vocabulary holds no global git option).
IsGitPush(words) == IsGit(words) /\ Len(words) >= 2 /\ words[2] = <<"p","u","s","h">>

\* A git push with --force or -f among its arguments.
IsForcePush(words) ==
    /\ IsGitPush(words)
    /\ \E i \in 3..Len(words) : words[i] \in { <<"-","-","f","o","r","c","e">>, <<"-","f">> }

\* The branch a `git push [flags] [remote [branch]]` pushes: the named one, or the
\* current branch when none is named.
PushedBranch(words, branch) ==
    LET positional == SelectSeq(SubSeq(words, 3, Len(words)), LAMBDA w : w[1] # "-")
    IN  IF Len(positional) >= 2 THEN positional[2] ELSE branch

ProtectedBranches == { <<"m","a","i","n">>, <<"m","a","s","t","e","r">> }

\* The pieces of a command line between && and ; that are not blank.
ChainSegments(line) ==
    LET pieces == Split(ReplaceAll(ReplaceAll(line, <<"&","&">>, <<"\n">>), <<";">>, <<"\n">>), "\n")
    IN  {TrimSpace(pieces[k]) : k \in 1..Len(pieces)} \ {<<>>}

IsChained(line) == Contains(line, <<"&","&">>) \/ Contains(line, <<";">>)

\* The dispatcher has decided a run_command invocation: the command line either
\* went to the shell (ran) or was refused.
RunCommandDecided ==
    /\ call.name = "run_command"
    /\ call.input.json = "ok"
    /\ call.phase \in {"running", "returned"}

RunCommandRefused == RunCommandDecided /\ ran = <<>>

RunCommandAccepted == RunCommandDecided /\ ran # <<>>

\* Some deny-list entry whose lower-cased text the lower-cased line contains.
DeniedEntries(line) ==
    LET lower == ToLower(line)
    IN  {k \in 1..Len(DangerousPatterns) : Contains(lower, ToLower(DangerousPatterns[k]))}

\* Some blocked git phrase the lower-cased line contains.
BlockedPhrases(line) ==
    LET lower == ToLower(line)
    IN  {k \in 1..Len(BlockedGitCommands) : Contains(lower, ToLower(BlockedGitCommands[k]))}

(***************************************************************************)
(* Properties.                                                             *)
(***************************************************************************)
\* C1: every command line handed to `sh -c`, by whichever of run_command, run_build
\* and run_tests, is one that ValidateCommand allows.
C1_EveryExecutedCommandValidated ==
    \A k \in 1..Len(ran) : ValidateCommand(ran[k]) = NoErr

\* C2: every simple command the shell starts for a validated command line handed to
\* `sh -c` begins with a word whose base name is in the allowlist.
C2_OnlyAllowlistedCommandsRun ==
    RunCommandAccepted =>
        \A k \in 1..Len(ran) : \A words \in SimpleCommands(ran[k]) :
            \E a \in 1..Len(AllowedCommands) : BaseName(words[1]) = AllowedCommands[a]

\* C3: a command chained with && or ; is allowed if and only if each of its segments,
\* validated on its own, is allowed.
C3_ChainAllowedIffEverySegmentAllowed ==
    (RunCommandDecided /\ IsChained(call.input.command)) =>
        (RunCommandAccepted <=>
            \A seg \in ChainSegments(call.input.command) : ValidateCommand(seg) = NoErr)

\* C4: a command whose lower-cased text contains a deny-list entry is rejected,
\* whatever its leading command and whether or not it is piped or chained, and the
\* rejection names a deny-list entry that the command contains.
C4_DenyListPrecedesAllowList ==
    (RunCommandDecided /\ DeniedEntries(call.input.command) # {}) =>
        /\ RunCommandRefused
        /\ call.err.kind = "command contains dangerous pattern"
        /\ \E k \in DeniedEntries(call.input.command) : call.err.arg = DangerousPatterns[k]

\* C4 witness: a piped or chained command with an allowlisted leading command and a
\* deny-list entry in it has been rejected.
C4_Witness ==
    /\ RunCommandRefused
    /\ DeniedEntries(call.input.command) # {}
    /\ Len(Fields(call.input.command)) > 0
    /\ isAllowedCommand(Fields(call.input.command)[1])
    /\ Contains(call.input.command, <<"|">>) \/ IsChained(call.input.command)

\* C5: a command whose base command is git (path qualification stripped) and whose
\* lower-cased text contains a blocked destructive phrase is rejected.
C5_BlockedGitPhraseRejected ==
    (/\ RunCommandDecided
     /\ Len(Fields(call.input.command)) > 0
     /\ IsGit(Fields(call.input.command))
     /\ BlockedPhrases(call.input.command) # {}) => RunCommandRefused

\* C6: a git command that contains "push" and names main or master is rejected unless
\* it carries the flag -u or --set-upstream.
C6_ProtectedPushNeedsUpstreamFlag ==
    (/\ RunCommandDecided
     /\ Len(Fields(call.input.command)) > 0
     /\ Fields(call.input.command)[1] = <<"g","i","t">>
     /\ Contains(ToLower(call.input.command), <<"p","u","s","h">>)
     /\ \/ Contains(ToLower(call.input.command), <<"m","a","i","n">>)
        \/ Contains(ToLower(call.input.command), <<"m","a","s","t","e","r">>)
     /\ ~HasWord(Fields(call.input.command), <<"-","u">>)
     /\ ~HasWord(Fields(call.input.command), <<"-","-","s","e","t","-","u","p","s","t","r","e","a","m">>)) => RunCommandRefused

\* C7: no accepted command line holds a git push that carries --force or -f, wherever
\* the flag stands and whether the push is the whole line or a piece of it.
C7_NoForcePush ==
    RunCommandAccepted =>
        \A k \in 1..Len(ran) : \A words \in SimpleCommands(ran[k]) : ~IsForcePush(words)

\* C8: nothing the dispatcher accepts runs a git push of main or master: neither a
\* validated run_command line nor the push tool.
C8_NoPushOfProtectedBranch ==
    /\ RunCommandAccepted =>
          \A k \in 1..Len(ran) : \A words \in SimpleCommands(ran[k]) :
              IsGitPush(words) => PushedBranch(words, currentBranch) \notin ProtectedBranches
    /\ \A k \in 1..Len(gitRan) :
          IsGitPush(<< <<"g","i","t">> >> \o gitRan[k]) =>
              PushedBranch(<< <<"g","i","t">> >> \o gitRan[k], currentBranch) \notin ProtectedBranches

\* The number of model calls the loop may make in one turn.
IterationCeiling == 20

\* What is left of a turn, ordered lexicographically: the loop stages left (a model
\* call and a tool phase per iteration), the tool uses left in this stage, and the
\* steps left of the tool use the dispatcher is handling.
TurnRank ==
    << CASE pc = "AwaitingModel" -> 2 * (IterationCeiling - iter)
         [] pc = "ExecutingTools" -> 2 * (IterationCeiling - iter) - 1
         [] OTHER -> 0,
       Len(pending),
       CASE call.phase = "idle" -> 3
         [] call.phase = "dispatching" -> 2
         [] call.phase = "running" -> 1
         [] OTHER -> 0 >>

LexLess(r, s) ==
    \/ r[1] < s[1]
    \/ r[1] = s[1] /\ r[2] < s[2]
    \/ r[1] = s[1] /\ r[2] = s[2] /\ r[3] < s[3]

\* C9: a turn never makes more than 20 model calls; it ends with the iteration-limit
\* error exactly when all of 20 model calls requested a tool, so a model that always
\* requests a tool is stopped there; and no turn loops forever, since every step of
\* a turn in progress lowers a rank that never falls below zero.
C9_TerminatesAtIterationCeiling ==
    /\ [](modelCalls <= IterationCeiling)
    /\ []((outcome = "exceeded maximum tool use iterations") <=>
            (pc = "Failed" /\ modelCalls = IterationCeiling /\ toolTurns = IterationCeiling))
    /\ []((pc = "AwaitingModel" /\ toolTurns = modelCalls) => modelCalls < IterationCeiling)
    /\ [](TurnRank[1] >= 0)
    /\ [][(pc = "AwaitingModel" \/ pc = "ExecutingTools") => LexLess(TurnRank', TurnRank)]_vars

\* C9 witness: a turn has ended at the ceiling after 20 tool-requesting responses.
C9_Witness ==
    /\ pc = "Failed"
    /\ outcome = "exceeded maximum tool use iterations"
    /\ modelCalls = IterationCeiling
    /\ toolTurns = IterationCeiling

CurrentToolUse == toolUses[Len(results) + 1]

\* C11: while the tool uses of a response are executed, the results collected so far
\* are those of the first tool uses, in order and with their ids, and the tool uses
\* still to run are the rest, in order; the dispatcher handles one invocation at a
\* time, always the next one of the response, and its result is appended before
\* another starts; the loop leaves the tool phase only when every tool use has its
\* result, and the follow-up turn it appends then carries exactly those results.
C11_ToolUsesRunOnceInOrder ==
    /\ [](pc = "ExecutingTools" =>
            /\ Len(results) <= Len(toolUses)
            /\ pending = SubSeq(toolUses, Len(results) + 1, Len(toolUses))
            /\ \A k \in 1..Len(results) : results[k].ToolUseID = toolUses[k].id
            /\ call.phase # "idle" =>
                  /\ Len(results) < Len(toolUses)
                  /\ call.id = CurrentToolUse.id
                  /\ call.name = CurrentToolUse.name
                  /\ call.input = CurrentToolUse.input)
    /\ [](pc # "ExecutingTools" => call.phase = "idle")
    /\ [][(pc = "ExecutingTools" /\ call.phase = "idle" /\ call'.phase # "idle") =>
            (toolExecs' = toolExecs + 1 /\ results' = results)]_vars
    /\ [][(pc = "ExecutingTools" /\ call.phase # "idle" /\ call'.phase = "idle") =>
            /\ Len(results') = Len(results) + 1
            /\ results'[Len(results')].ToolUseID = call.id
            /\ SubSeq(results', 1, Len(results)) = results]_vars
    /\ [][(pc = "ExecutingTools" /\ pc' # "ExecutingTools") =>
            /\ call.phase = "idle"
            /\ Len(results) = Len(toolUses)
            /\ \A k \in 1..Len(toolUses) : results[k].ToolUseID = toolUses[k].id
            /\ results' = results
            /\ messages' = Append(messages, "tool_results")]_vars

\* C11 witness: the model is about to be called with a follow-up turn of two results,
\* the first an error and the second not.
C11_Witness ==
    /\ pc = "AwaitingModel"
    /\ iter > 0
    /\ Len(results) = 2
    /\ results[1].ToolUseID = 1 /\ results[1].IsError
    /\ results[2].ToolUseID = 2 /\ ~results[2].IsError
    /\ messages[Len(messages)] = "tool_results"

\* The errors with which the loop itself gives up.
FatalLoopErrors == {"claude API error", "exceeded maximum tool use iterations"}

\* C12: a tool execution that returns an error does not end the turn: its result is
\* collected with the error flag set and the loop stays in the tool phase; and a turn
\* ends with an error only for a failed model call or the iteration ceiling.
C12_OnlyModelFailureOrCeilingIsFatal ==
    /\ [][(pc = "ExecutingTools" /\ call.phase = "returned" /\ call.err # NoErr
                /\ call'.phase = "idle") =>
            /\ pc' = "ExecutingTools"
            /\ outcome' = outcome
            /\ results' = Append(results, [ToolUseID |-> call.id, IsError |-> TRUE])]_vars
    /\ [](pc = "Failed" => outcome \in FatalLoopErrors)

\* The role under which a turn of the in-memory history would be stored.
StoredRole(turn) == IF turn \in {"assistant", "assistant_tool_use"} THEN "assistant" ELSE "user"

\* C13: when a turn has ended with a fatal loop error and no store write failed, the
\* stored conversation holds the whole in-memory history of the turn: what the store
\* held before, the user turn, and every tool-request and tool-result turn appended
\* before the failure.
C13_HistoryPreservedOnFatalError ==
    (pc = "Failed" /\ outcome \in FatalLoopErrors /\ logged = {}) =>
        /\ store.present
        /\ store.Messages = [k \in 1..Len(messages) |-> StoredRole(messages[k])]

\* C14: an AddMessage error never ends a turn and never changes what it returns: with
\* the user message's write failed, the first model call is made on the stored history
\* plus the new user turn; with the assistant message's write failed, the turn is Done
\* and returns the text; and no turn fails with an error other than that of Get, of the
\* model call or of the iteration ceiling.
C14_StoreWriteFailureIsNotFatal ==
    /\ ((pc = "AwaitingModel" /\ modelCalls = 0) =>
            messages = IF "failed to store user message" \in logged
                       THEN Append(buildMessageHistory(store), "user")
                       ELSE buildMessageHistory(store))
    /\ (pc \in {"AwaitingModel", "ExecutingTools"} =>
            messages # <<>> /\ "user" \in {messages[k] : k \in 1..Len(messages)})
    /\ ("failed to store assistant message" \in logged => (pc = "Done" /\ outcome = "text"))
    /\ (pc = "Done" => outcome = "text")
    /\ (pc = "Failed" => outcome \in FatalLoopErrors \cup {"failed to get conversation"})
    /\ (outcome = "failed to get conversation" => (logged = {} /\ modelCalls = 0))

\* C14 witness: on a stored conversation, a turn whose two store writes both failed has
\* run a tool and returned the model's text.
C14_Witness ==
    /\ pc = "Done" /\ outcome = "text"
    /\ logged = {"failed to store user message", "failed to store assistant message"}
    /\ store.present /\ Len(store.Messages) = 1
    /\ Len(messages) = 4
    /\ toolExecs > 0

\* C15: no conversation id ever has two calls of ProcessMessage in progress; a message
\* starts its loop only when no loop is in progress, the one in progress being that of
\* the event handleEvents is handling.
C15_OneLoopPerConversation ==
    /\ \A c \in ConversationIds :
          /\ active[c] <= 1
          /\ active[c] = 1 <=> handling.conv = c
    /\ handling # NoEvent => ReachesProcessMessage(handling)

\* C15 witness: while the loop of one message of a conversation is in progress, a
\* second message for the same conversation waits in the event channel.
C15_Witness ==
    /\ active["thread-1"] = 1
    /\ handling.conv = "thread-1"
    /\ events # <<>>
    /\ Head(events).conv = "thread-1"
    /\ ReachesProcessMessage(Head(events))


(***************************************************************************)
(* The MemoryStore against its serialization: what the map shows, and what *)
(* the calls granted mu so far, applied one after another, would produce.  *)
(***************************************************************************)
StoreView == [id \in ConversationIds |-> ViewOf(conversations[id])]

ApplyCall(view, e) ==
    CASE e.op = "AddMessage" ->
            [view EXCEPT ![e.id] =
                [present |-> TRUE,
                 ChannelID |-> IF view[e.id].present THEN view[e.id].ChannelID ELSE e.channel,
                 Messages |-> Append(view[e.id].Messages, e.msg)]]
      [] e.op = "Delete" -> [view EXCEPT ![e.id] = Absent]
      [] e.op = "Save" -> [view EXCEPT ![e.id] = e.snapshot]
      [] OTHER -> view

RECURSIVE Replay(_)
Replay(log) ==
    IF log = <<>> THEN [id \in ConversationIds |-> Absent]
    ELSE ApplyCall(Replay(SubSeq(log, 1, Len(log) - 1)), log[Len(log)])

\* The calls granted mu before, and including, the call caller c is making.
SerialUpTo(c) == SubSeq(serial, 1, callers[c].at)

Returning(c) == callers[c].op = "Get" /\ callers[c].pc = "unlock"

\* C16: Get, AddMessage, Save and Delete are atomic relative to each other: whenever no
\* writer is inside the store, the map holds exactly what the calls made so far produce
\* when applied one at a time in the order mu was granted (so every appended message is
\* there once, in that order, also when calls race to create the conversation), and a
\* Get returns exactly the state after the calls serialized before it, never a list
\* with an append half done.
C16_StoreCallsAreAtomic ==
    /\ mu.writer = 0 => StoreView = Replay(serial)
    /\ \A c \in Callers :
          Returning(c) => ViewOf(callers[c].ret) = Replay(SerialUpTo(c))[callers[c].id]

\* C16 witness: a Get is returning a conversation that holds messages appended by both
\* goroutines while the other goroutine waits for mu to append one more to it.
C16_Witness ==
    \E c, d \in Callers :
        /\ c # d
        /\ Returning(c) /\ callers[c].ret # 0
        /\ callers[d].pc = "waiting" /\ callers[d].op = "AddMessage"
        /\ callers[d].id = callers[c].id
        /\ \E i, j \in 1..Len(ViewOf(callers[c].ret).Messages) :
              /\ ViewOf(callers[c].ret).Messages[i].Content[1] = c
              /\ ViewOf(callers[c].ret).Messages[j].Content[1] = d

\* The AddMessage calls on the id of c's call among the calls serialized before it, when
\* AddMessage and Get are the only calls made on that id; <<>> otherwise.
AddsBefore(c) ==
    LET onId == SelectSeq(SerialUpTo(c), LAMBDA e : e.id = callers[c].id)
    IN  IF \A k \in 1..Len(onId) : onId[k].op \in {"AddMessage", "Get"}
        THEN SelectSeq(onId, LAMBDA e : e.op = "AddMessage")
        ELSE <<>>

\* C17: after N >= 1 AddMessage calls on an id that was absent before, Get returns a
\* conversation whose messages are exactly the N appended ones, in the order appended,
\* each with its role and content unchanged.
C17_AddThenGetRoundTrip ==
    \A c \in Callers :
        (Returning(c) /\ AddsBefore(c) # <<>>) =>
            /\ callers[c].ret # 0
            /\ ViewOf(callers[c].ret).Messages =
                  [k \in 1..Len(AddsBefore(c)) |-> AddsBefore(c)[k].msg]

\* C17 witness: a Get returns after three AddMessage calls, made by both goroutines, on
\* an id that was absent before.
C17_Witness ==
    \E c \in Callers :
        /\ Returning(c)
        /\ Len(AddsBefore(c)) = 3
        /\ \E i, j \in 1..3 : AddsBefore(c)[i].by # AddsBefore(c)[j].by

\* C18: a caller holds only a copy: the conversation a goroutine holds is never the
\* struct, nor shares the message array, of a stored conversation; a goroutine changing
\* the conversation it holds leaves what the store holds as it was; and a Get returns
\* what the store holds.
C18_CallerHoldsOnlyACopy ==
    /\ [](\A c \in Callers, id \in ConversationIds :
            (callers[c].held # 0 /\ conversations[id] # 0) =>
                /\ conversations[id] # callers[c].held
                /\ convs[conversations[id]].Messages # convs[callers[c].held].Messages)
    /\ [][(\E c \in Callers : ~callers[c].dirty /\ callers'[c].dirty)
             => StoreView' = StoreView]_vars
    /\ [](\A c \in Callers :
            Returning(c) => ViewOf(callers[c].ret) = StoreView[callers[c].id])

\* C18 witness: a goroutine has changed the conversation it passed to Save after Save
\* returned, and the other goroutine's later Get on that id is returning.
C18_Witness ==
    \E c, d \in Callers : \E k \in 1..Len(serial) :
        /\ c # d
        /\ serial[k].op = "Save" /\ serial[k].by = c
        /\ callers[c].dirty
        /\ ViewOf(callers[c].held) # serial[k].snapshot
        /\ Returning(d) /\ callers[d].ret # 0
        /\ callers[d].id = serial[k].id
        /\ callers[d].at > k


Min(a, b) == IF a < b THEN a ELSE b

\* C19: when the command was still running as the deadline expired, executeCommand
\* returns after the subprocess was killed, and returns a result, not an error, with
\* TimedOut set, exit code -1, and the output captured until then.
C19_TimeoutYieldsSentinelResult ==
    (cmdResult.returned /\ deadline.runningAtExpiry) =>
        /\ proc.killed
        /\ cmdResult.err = "nil"
        /\ cmdResult.TimedOut
        /\ cmdResult.ExitCode = -1
        /\ cmdResult.Stdout = streams["stdout"].buf
        /\ cmdResult.Stderr = streams["stderr"].buf

\* C20: for each stream, whatever was written, the buffer holds exactly the first
\* min(total, MaxOutputSize) bytes of the stream, never more than MaxOutputSize, and the
\* last Write returned the full length of what it was given and no error.
C20_CaptureIsCappedPrefix ==
    \A s \in Streams :
        /\ streams[s].buf = FirstBytes(Min(streams[s].total, MaxOutputSize))
        /\ streams[s].written <= MaxOutputSize
        /\ streams[s].last.n = streams[s].last.len
        /\ streams[s].last.err = "nil"

\* C30: in every result executeCommand returns, TimedOut implies a non-zero exit
\* code, however the end of the subprocess and the expiry of the deadline interleave.
C30_TimedOutImpliesNonZeroExit ==
    (cmdResult.returned /\ cmdResult.err = "nil" /\ cmdResult.TimedOut) =>
        cmdResult.ExitCode # 0

\* What the turn read from the store followed by the user's text: the turns of the
\* local history that are stored messages.
TurnHistory == SelectSeq(messages, LAMBDA role : role \in {"user", "assistant"})

\* C29: with no store write failing, a turn changes the stored conversation only by
\* appending: a turn that succeeded has appended the user's text and then the
\* assistant's final text to what it read, however many tool iterations it ran; a turn
\* that ended in a fatal error has appended the user's text only; and no step changes
\* or removes a stored message.
C29_TurnOnlyAppendsToStore ==
    /\ []((pc = "Done" /\ logged = {}) =>
            /\ TurnHistory # <<>>
            /\ TurnHistory[Len(TurnHistory)] = "user"
            /\ store.Messages = Append(TurnHistory, "assistant"))
    /\ []((pc = "Failed" /\ logged = {}) =>
            /\ TurnHistory # <<>>
            /\ TurnHistory[Len(TurnHistory)] = "user"
            /\ store.Messages = TurnHistory)
    /\ [][\/ store'.Messages = store.Messages
          \/ \E role \in {"user", "assistant"} :
                store'.Messages = Append(store.Messages, role)]_vars

\* The invocation the dispatcher holds names no handler, or its arguments do not decode
\* for the handler named.
Undispatchable(c) ==
    \/ c.name \notin ToolNames
    \/ c.name \notin NoInputTools /\ c.input.json = "bad"

\* C24: dispatching a tool name without a handler, or arguments that do not decode,
\* returns an error and runs nothing (no subprocess, no git command, no branch change);
\* the loop appends an error-flagged ToolResult with the invocation's id, stays in the
\* turn, and leaves the tool phase only for the next model call or at the ceiling.
C24_BadInvocationIsAnErrorResult ==
    /\ [][(call.phase = "dispatching" /\ call'.phase # "dispatching" /\ Undispatchable(call))
            => /\ call'.phase = "returned"
               /\ call'.err # NoErr
               /\ ran' = ran /\ gitRan' = gitRan /\ currentBranch' = currentBranch]_vars
    /\ [][(pc = "ExecutingTools" /\ call.phase = "returned" /\ call'.phase = "idle"
             /\ Undispatchable(call))
            => /\ results' = Append(results, [ToolUseID |-> call.id, IsError |-> TRUE])
               /\ pc' = "ExecutingTools"
               /\ outcome' = outcome]_vars
    /\ [][(pc = "ExecutingTools" /\ pc' # "ExecutingTools")
            => \/ pc' = "AwaitingModel"
               \/ pc' = "Failed" /\ iter' = maxIterations]_vars

\* C24 witness: the first tool use of a response named an unknown tool and is recorded
\* as an error result, and the second, whose arguments do not decode, has just returned
\* its error.
C24_Witness ==
    /\ pc = "ExecutingTools"
    /\ Len(toolUses) = 2 /\ toolUses[1].name \notin ToolNames
    /\ results = <<[ToolUseID |-> toolUses[1].id, IsError |-> TRUE]>>
    /\ call.phase = "returned" /\ call.input.json = "bad" /\ call.err # NoErr
    /\ ran = <<>> /\ gitRan = <<>>

\* C28: every tool name offered to the model has a handler in Execute: an invocation of
\* an offered tool never returns the "unknown tool" error.
C28_CatalogToolsHaveHandlers ==
    (call.phase = "returned" /\ call.name \in GetAllTools) => call.err.kind # "unknown tool"

\* The branch names handed to `git checkout -b` by the create_branch invocation the
\* dispatcher has answered.
CreatedBranches ==
    {gitRan[k][3] : k \in {i \in 1..Len(gitRan) : gitRan[i][1] = <<"c","h","e","c","k","o","u","t">>}}

\* C25: the name SanitizeBranchName returns, and so every branch name handed to git by
\* create_branch, is at most 100 bytes long and contains none of the disallowed
\* characters and sequences.
C25_SanitizedBranchNameIsSafe ==
    (call.name = "create_branch" /\ call.phase = "returned" /\ call.input.json = "ok") =>
        /\ \A b \in CreatedBranches \cup {SanitizeBranchName(call.input.name)} :
              /\ Len(b) <= MaxBranchLen
              /\ \A k \in 1..Len(BranchReplacements) : ~Contains(b, BranchReplacements[k])
        /\ CreatedBranches \subseteq {SanitizeBranchName(call.input.name)}

\* C25 witness: create_branch was given a name of more than 100 bytes that holds
\* disallowed characters and sequences, and git was handed a name of exactly 100 bytes.
C25_Witness ==
    /\ call.name = "create_branch" /\ call.phase = "returned"
    /\ Len(call.input.name) > MaxBranchLen
    /\ Contains(call.input.name, <<".",".">>) /\ Contains(call.input.name, <<"~">>)
    /\ \E b \in CreatedBranches : Len(b) = MaxBranchLen

\* The errors ValidateCommand and the functions it calls can return.
RejectionKinds == {
    "empty command", "command contains dangerous pattern", "command not allowed in pipe",
    "command not allowed", "git operation not allowed",
    "direct push to main/master not allowed" }

\* How deep the calls of ValidateCommand nest for a command: one call, plus, on the
\* chain path, the deepest of the calls made for the pieces up to the first one
\* rejected.
RECURSIVE ValidateDepth(_)
ValidateDepth(raw) ==
    LET command == TrimSpace(raw)
        replaced == ReplaceAll(ReplaceAll(command, <<"&","&">>, <<"\n">>), <<";">>, <<"\n">>)
        cmds == Split(replaced, "\n")
        tried == {k \in 1..Len(cmds) :
                    /\ TrimSpace(cmds[k]) # <<>>
                    /\ \A j \in 1..(k - 1) :
                          TrimSpace(cmds[j]) = <<>> \/ ValidateCommand(TrimSpace(cmds[j])) = NoErr}
        below == {ValidateDepth(TrimSpace(cmds[k])) : k \in tried}
    IN  IF \/ command = <<>>
           \/ dangerousPattern(command) # NoErr
           \/ Contains(command, <<"|">>)
           \/ ~IsChained(command)
           \/ tried = {}
        THEN 1
        ELSE 1 + (CHOOSE d \in below : \A e \in below : e <= d)

\* C23: ValidateCommand gives every command exactly one verdict: the command is run
\* exactly when the verdict is nil, and is otherwise refused with one of the validator's
\* rejections; a blank command is refused as "empty command"; and the calls of
\* ValidateCommand nest at most two deep however many && and ; the command holds.
C23_ValidateCommandIsTotal ==
    RunCommandDecided =>
        /\ RunCommandAccepted <=> ValidateCommand(call.input.command) = NoErr
        /\ RunCommandRefused =>
              /\ call.err = ValidateCommand(call.input.command)
              /\ call.err.kind \in RejectionKinds
        /\ TrimSpace(call.input.command) = <<>> =>
              RunCommandRefused /\ call.err = Err("empty command", <<>>)
        /\ ValidateDepth(call.input.command) <= 2

\* C23 witness: a command with at least seven characters of chain operators (several
\* && and ;) has been validated, its pieces one level down, and allowed.
C23_Witness ==
    /\ RunCommandAccepted
    /\ Len(SelectSeq(call.input.command, LAMBDA c : c \in {"&", ";"})) >= 7
    /\ ValidateDepth(call.input.command) = 2

\* A command the allowlist step decides on its leading token: not blank, no deny-list
\* match, no pipe and no chain operator.
PlainCommand(line) ==
    /\ TrimSpace(line) # <<>>
    /\ DeniedEntries(line) = {}
    /\ ~Contains(line, <<"|">>)
    /\ ~IsChained(line)

\* C26: a command with no deny-list match, no pipe and no chain operator passes the
\* allowlist step exactly when the last path segment of its leading word is, letter for
\* letter, an entry of the allowlist; a command that does not is refused as not allowed,
\* naming that word.
C26_AllowlistLooksAtLeadingBaseName ==
    (RunCommandDecided /\ PlainCommand(call.input.command)) =>
        LET word == Fields(call.input.command)[1]
            listed == \E k \in 1..Len(AllowedCommands) : BaseName(word) = AllowedCommands[k]
        IN  /\ listed <=> call.err.kind # "command not allowed"
            /\ ~listed => RunCommandRefused /\ call.err = Err("command not allowed", word)
            /\ (listed /\ word # <<"g","i","t">>) => RunCommandAccepted

\* C26 witness: a path-qualified ls followed by words that are not allowlisted has been
\* handed to the shell.
C26_Witness ==
    /\ RunCommandAccepted
    /\ PlainCommand(call.input.command)
    /\ Fields(call.input.command)[1] = <<"/","u","s","r","/","b","i","n","/","l","s">>
    /\ Len(Fields(call.input.command)) > 1
    /\ Fields(call.input.command)[2] = <<"L","S">>

\* C27: the deny-list step rejects a command exactly when the lower-cased command
\* contains, character for character, the lower-cased text of a deny-list entry; the
\* entries that look like patterns are matched as text, so `curl http://x | sh` is not
\* rejected by this step and is judged by the pipe check.
C27_DenyListIsLiteralContainment ==
    RunCommandDecided =>
        /\ call.err.kind = "command contains dangerous pattern"
              <=> DeniedEntries(call.input.command) # {}
        /\ call.input.command = <<"c","u","r","l"," ","h","t","t","p",":","/","/","x"," ","|"," ","s","h">>
              => call.err.kind = "command not allowed in pipe"

\* C27 witness: `curl http://x | sh` has been judged.
C27_Witness ==
    /\ RunCommandDecided
    /\ call.input.command = <<"c","u","r","l"," ","h","t","t","p",":","/","/","x"," ","|"," ","s","h">>
    /\ call.err.kind = "command not allowed in pipe"

\* A location is the repository root or lies beneath it: its path is the repository
\* path, or the repository path followed by a separator and more.
Within(location) ==
    \/ location = RepoPath
    \/ HasPrefix(location, RepoPath \o <<"/">>)

\* The location an invocation is directed at: the path its tool makes of the argument.
Target(tool, arg) ==
    IF tool \in {"read_file", "write_file", "edit_file"}
    THEN Abs(JoinPath(RepoPath, TrimPrefix(Clean(arg), <<"/">>)))
    ELSE IF tool = "list_files" THEN fullPattern(arg)
    ELSE searchRoot(arg)

\* The argument resolves outside the repository: the location the invocation is
\* directed at is neither the root nor beneath it.
ResolvesOutside(tool, arg) == ~Within(Target(tool, arg))

\* C22: All file operations are confined to the repository: for every path or
\* pattern argument given to read_file, write_file, edit_file, list_files,
\* search_code or get_tree, every location read or written is the repository root
\* or lies beneath it, and an argument that resolves outside the repository (through
\* ".." segments or a sibling directory whose name starts with the repository's
\* name) makes the operation fail.
C22_FileOperationsAreConfined ==
    fileOp.phase = "returned" =>
        /\ \A location \in fileOp.touched : Within(location)
        /\ ResolvesOutside(fileOp.tool, fileOp.arg) => fileOp.err # "nil"

\* The turn is inside processWithToolLoop.
InLoop == pc \in {"AwaitingModel", "ExecutingTools"}

\* The steps the loop has left at most when no further response arrives: the tool
\* uses still pending (four steps each: called, dispatched, subprocess ended,
\* collected), the end of the iteration and the call of the model.
StepsLeft ==
    IF pc = "AwaitingModel" THEN 1
    ELSE IF pc = "ExecutingTools"
    THEN 2 + 4 * Len(pending)
           - (IF call.phase = "dispatching" THEN 1
              ELSE IF call.phase = "running" THEN 2
              ELSE IF call.phase = "returned" THEN 3
              ELSE 0)
    ELSE 0

\* A step of the loop under a cancelled context: no model round-trip completes (the
\* call of the model, in flight or made next, fails and ends the loop with the
\* error), a call in flight returns, and the loop is one step nearer to its end.
StepOnceCancelled ==
    (ctx = "cancelled" /\ InLoop) =>
        /\ pc = "AwaitingModel" => pc' = "Failed" /\ outcome' = "claude API error"
        /\ pc' \in {"ExecutingTools", "AwaitingModel", "Failed"}
        /\ pc' = "Failed" => outcome' \in {"claude API error", "exceeded maximum tool use iterations"}
        /\ toolTurns' = toolTurns
        /\ iter' <= iter + 1
        /\ StepsLeft' < StepsLeft

====
